---- MODULE Spec2Model ----
(***************************************************************************)
(* cxxnetaddr: NetworkAddress (a sockaddr_storage treated as one of four   *)
(* record layouts) and NetworkInterface (a name resolved through the OS    *)
(* interface directory).  Record layouts are those of Linux on a           *)
(* little-endian host: multi-byte host-order fields are stored low byte    *)
(* first, network-order fields high byte first.  A storage buffer is the   *)
(* sequence of its bytes, byte k of the C object being element k + 1.      *)
(* Text is the sequence of its character codes.                            *)
(***************************************************************************)
EXTENDS Integers, Sequences, FiniteSets

VARIABLES a, b, c, out, steps, ifdir, iface, ifaddrs

vars == <<a, b, c, out, steps, ifdir, iface, ifaddrs>>

\* ------------------------------------------------------------------------
\* Platform constants (sizes and offsets of the socket-address records)

AF_UNSPEC == 0
AF_UNIX == 1
AF_INET == 2
AF_INET6 == 10
AF_PACKET == 17

SizeofStorage == 128          \* sizeof(::sockaddr_storage)
SizeofSockaddr == 16          \* sizeof(::sockaddr)
SizeofIn == 16                \* sizeof(::sockaddr_in)
SizeofIn6 == 28               \* sizeof(::sockaddr_in6)
SizeofLl == 20                \* sizeof(::sockaddr_ll)
SizeofUn == 110               \* sizeof(::sockaddr_un)
SizeofSllAddr == 8            \* sizeof(sockaddr_ll::sll_addr)
SizeofSunPath == 108          \* sizeof(sockaddr_un::sun_path)
OffsetSunPath == 2            \* offsetof(::sockaddr_un, sun_path)
OffsetSllHalen == 11          \* offsetof(::sockaddr_ll, sll_halen)
OffsetSllAddr == 12           \* offsetof(::sockaddr_ll, sll_addr)
ETH_ALEN == 6

\* ------------------------------------------------------------------------
\* Bytes and buffers

Min(x, y) == IF x <= y THEN x ELSE y

Zeros(n) == [i \in 1..n |-> 0]

\* bytes [off, off + n) of buffer s (0-based offset, as in C)
Slice(s, off, n) == [i \in 1..n |-> s[off + i]]

\* memcpy(s + off, src, n): the first n bytes of src written at offset off
Memcpy(s, off, src, n) ==
  [i \in 1..Len(s) |-> IF i > off /\ i <= off + n THEN src[i - off] ELSE s[i]]

\* byte swaps of a little-endian host
htons(v) == ((v % 256) * 256) + ((v \div 256) % 256)
ntohs(v) == htons(v)
\* a 32-bit unsigned value is the pair <<high half, low half>> of its 16-bit
\* halves (TLC's integers are 32-bit signed)
U32(n) == <<n \div 65536, n % 65536>>
htonl(v) == <<htons(v[2]), htons(v[1])>>
ntohl(v) == htonl(v)

\* object representation of host-order integers, and reading them back
U16Host(v) == <<v % 256, (v \div 256) % 256>>
U32Host(v) == U16Host(v[2]) \o U16Host(v[1])
ReadU16Host(s, off) == s[off + 1] + (256 * s[off + 2])
ReadU32Host(s, off) == <<ReadU16Host(s, off + 2), ReadU16Host(s, off)>>

\* storage { .ss_family = family }: the family field set, every other byte zero
StorageOfFamily(family) == Memcpy(Zeros(SizeofStorage), 0, U16Host(family), 2)

ss_family(s) == ReadU16Host(s, 0)

\* ------------------------------------------------------------------------
\* Families

unix2addr(family) ==
  CASE family = AF_UNIX -> "unixSocket"
    [] family = AF_PACKET -> "ethernet"
    [] family = AF_INET -> "ipv4"
    [] family = AF_INET6 -> "ipv6"
    [] OTHER -> "unspecified"

addr2unix(family) ==
  CASE family = "unixSocket" -> AF_UNIX
    [] family = "ethernet" -> AF_PACKET
    [] family = "ipv4" -> AF_INET
    [] family = "ipv6" -> AF_INET6
    [] OTHER -> AF_UNSPEC

\* sizeof(family2type(f)::type)
family2type(family) ==
  CASE family = "unixSocket" -> SizeofUn
    [] family = "ethernet" -> SizeofLl
    [] family = "ipv4" -> SizeofIn
    [] family = "ipv6" -> SizeofIn6

\* ------------------------------------------------------------------------
\* Text

\* character code (ASCII) of a printable character written as a literal
Ord(ch) ==
  CASE ch = "0" -> 48 [] ch = ":" -> 58 [] ch = "." -> 46 [] ch = "9" -> 57
    [] ch = "a" -> 97 [] ch = "f" -> 102 [] ch = "A" -> 65 [] ch = "F" -> 70
    [] ch = "[" -> 91 [] ch = "]" -> 93 [] ch = "%" -> 37 [] ch = "/" -> 47
    [] ch = " " -> 32 [] ch = "!" -> 33 [] ch = "#" -> 35
    [] ch = "$" -> 36 [] ch = "&" -> 38 
    [] ch = "+" -> 43 [] ch = "," -> 44
    [] ch = "-" -> 45 [] ch = "1" -> 49 [] ch = "2" -> 50 [] ch = "3" -> 51
    [] ch = "4" -> 52 [] ch = "5" -> 53 [] ch = "6" -> 54 [] ch = "7" -> 55
    [] ch = "8" -> 56 [] ch = ";" -> 59 [] ch = "<" -> 60 [] ch = "=" -> 61
    [] ch = ">" -> 62 [] ch = "?" -> 63 [] ch = "@" -> 64 [] ch = "B" -> 66
    [] ch = "C" -> 67 [] ch = "D" -> 68 [] ch = "E" -> 69 [] ch = "G" -> 71
    [] ch = "H" -> 72 [] ch = "I" -> 73 [] ch = "J" -> 74 [] ch = "K" -> 75
    [] ch = "L" -> 76 [] ch = "M" -> 77 [] ch = "N" -> 78 [] ch = "O" -> 79
    [] ch = "P" -> 80 [] ch = "Q" -> 81 [] ch = "R" -> 82 [] ch = "S" -> 83
    [] ch = "T" -> 84 [] ch = "U" -> 85 [] ch = "V" -> 86 [] ch = "W" -> 87
    [] ch = "X" -> 88 [] ch = "Y" -> 89 [] ch = "Z" -> 90 
    [] ch = "^" -> 94 [] ch = "_" -> 95 [] ch = "b" -> 98
    [] ch = "c" -> 99 [] ch = "d" -> 100 [] ch = "e" -> 101 [] ch = "g" -> 103
    [] ch = "h" -> 104 [] ch = "i" -> 105 [] ch = "j" -> 106 [] ch = "k" -> 107
    [] ch = "l" -> 108 [] ch = "m" -> 109 [] ch = "n" -> 110 [] ch = "o" -> 111
    [] ch = "p" -> 112 [] ch = "q" -> 113 [] ch = "r" -> 114 [] ch = "s" -> 115
    [] ch = "t" -> 116 [] ch = "u" -> 117 [] ch = "v" -> 118 [] ch = "w" -> 119
    [] ch = "x" -> 120 [] ch = "y" -> 121 [] ch = "z" -> 122 [] ch = "{" -> 123
    [] ch = "|" -> 124 [] ch = "}" -> 125 [] ch = "~" -> 126

IsDigit(ch) == ch >= Ord("0") /\ ch <= Ord("9")
DigitVal(ch) == ch - Ord("0")
IsXDigit(ch) ==
  \/ IsDigit(ch)
  \/ (ch >= Ord("a") /\ ch <= Ord("f"))
  \/ (ch >= Ord("A") /\ ch <= Ord("F"))
XDigitVal(ch) ==
  IF IsDigit(ch) THEN ch - Ord("0")
  ELSE IF ch >= Ord("a") THEN (ch - Ord("a")) + 10 ELSE (ch - Ord("A")) + 10

\* the text of a literal written as a tuple of one-character strings
Txt(lit) == [i \in 1..Len(lit) |-> Ord(lit[i])]

RECURSIVE Dec(_)
\* decimal text of a natural number (std::to_string, "%u")
Dec(n) == IF n < 10 THEN <<Ord("0") + n>> ELSE Dec(n \div 10) \o <<Ord("0") + (n % 10)>>

LowerXDigit(d) == IF d < 10 THEN Ord("0") + d ELSE Ord("a") + (d - 10)
UpperXDigit(d) == IF d < 10 THEN Ord("0") + d ELSE Ord("A") + (d - 10)

RECURSIVE Dec32(_)
\* decimal text of a 32-bit unsigned value ("%u"), by long division
Dec32(v) ==
  LET rest == ((v[1] % 10) * 65536) + v[2]
      q == <<v[1] \div 10, rest \div 10>>
  IN IF v[1] = 0 /\ v[2] < 10 THEN <<Ord("0") + v[2]>>
     ELSE Dec32(q) \o <<Ord("0") + (rest % 10)>>

RECURSIVE Hex(_)
\* lower-case hexadecimal text without leading zeros ("%x")
Hex(n) == IF n < 16 THEN <<LowerXDigit(n)>> ELSE Hex(n \div 16) \o <<LowerXDigit(n % 16)>>

RECURSIVE DecVal(_)
\* value of a non-empty text of decimal digits
DecVal(t) ==
  IF Len(t) = 1 THEN DigitVal(t[1])
  ELSE (10 * DecVal(SubSeq(t, 1, Len(t) - 1))) + DigitVal(t[Len(t)])

AllDigits(t) == Len(t) > 0 /\ \A i \in 1..Len(t) : IsDigit(t[i])

\* std::string::find / rfind of one character: 0-based position, -1 for npos
Find(t, ch) ==
  IF \E i \in 1..Len(t) : t[i] = ch
  THEN (CHOOSE i \in 1..Len(t) : t[i] = ch /\ \A j \in 1..(i - 1) : t[j] # ch) - 1
  ELSE -1
RFind(t, ch) ==
  IF \E i \in 1..Len(t) : t[i] = ch
  THEN (CHOOSE i \in 1..Len(t) : t[i] = ch /\ \A j \in (i + 1)..Len(t) : t[j] # ch) - 1
  ELSE -1

\* std::string::substr(pos) and substr(pos, n), pos <= size
Substr(t, pos) == SubSeq(t, pos + 1, Len(t))
SubstrN(t, pos, n) == SubSeq(t, pos + 1, Min(Len(t), pos + n))

RECURSIVE Split(_, _)
\* the pieces std::getline(ss, s, sep) yields until the stream is exhausted:
\* no piece for an empty text and none after a trailing separator
Split(t, sep) ==
  IF Len(t) = 0 THEN <<>>
  ELSE LET p == Find(t, sep) IN
       IF p = -1 THEN <<t>>
       ELSE <<SubSeq(t, 1, p)>> \o Split(Substr(t, p + 1), sep)

\* ------------------------------------------------------------------------
\* The OS interface directory: ifdir is the set of its entries
\* [name |-> text, index |-> positive number], names and indices unique.

\* ::if_nametoindex(name): 0 when the directory has no such name; indices
\* handed to if_indextoname are 32-bit values
if_nametoindex(dir, name) ==
  IF \E e \in dir : e.name = name THEN (CHOOSE e \in dir : e.name = name).index ELSE 0

\* ::if_indextoname(index, buffer) != nullptr
if_indexknown(dir, index) == \E e \in dir : U32(e.index) = index
if_indextoname(dir, index) == (CHOOSE e \in dir : U32(e.index) = index).name

\* ------------------------------------------------------------------------
\* The OS numeric address conversions used through getnameinfo / getaddrinfo

\* inet_ntop(AF_INET): dotted quad of four bytes
inet_ntop4(o) ==
  Dec(o[1]) \o <<Ord(".")>> \o Dec(o[2]) \o <<Ord(".")>> \o Dec(o[3]) \o <<Ord(".")>> \o Dec(o[4])

\* the eight 16-bit words of a 16-byte IPv6 address in network order
Words6(o) == [i \in 1..8 |-> (o[(2 * i) - 1] * 256) + o[2 * i]]

RECURSIVE ZeroRun(_, _)
\* number of consecutive zero words starting at word i
ZeroRun(w, i) == IF i > 8 \/ w[i] # 0 THEN 0 ELSE 1 + ZeroRun(w, i + 1)

IsRunStart(w, i) == w[i] = 0 /\ (i = 1 \/ w[i - 1] # 0)

\* first longest run of at least two zero words; 0 when there is none
BestBase(w) ==
  IF \E i \in 1..8 : IsRunStart(w, i) /\ ZeroRun(w, i) >= 2
  THEN CHOOSE i \in 1..8 :
         /\ IsRunStart(w, i) /\ ZeroRun(w, i) >= 2
         /\ \A j \in 1..8 : IsRunStart(w, j) =>
              \/ ZeroRun(w, j) < ZeroRun(w, i)
              \/ (ZeroRun(w, j) = ZeroRun(w, i) /\ j >= i)
  ELSE 0

RECURSIVE Ntop6From(_, _, _, _, _)
Ntop6From(o, w, i, base, len) ==
  IF i > 8 THEN (IF base # 0 /\ base + len = 9 THEN <<Ord(":")>> ELSE <<>>)
  ELSE IF base # 0 /\ i >= base /\ i < base + len
       THEN (IF i = base THEN <<Ord(":")>> ELSE <<>>) \o Ntop6From(o, w, i + 1, base, len)
       ELSE (IF i # 1 THEN <<Ord(":")>> ELSE <<>>) \o
            (IF i = 7 /\ base = 1 /\ (len = 6 \/ (len = 5 /\ w[6] = 65535))
             THEN inet_ntop4(Slice(o, 12, 4))
             ELSE Hex(w[i]) \o Ntop6From(o, w, i + 1, base, len))

\* inet_ntop(AF_INET6): compressed lower-case hextets of sixteen bytes
inet_ntop6(o) ==
  LET w == Words6(o)
      base == BestBase(w)
  IN Ntop6From(o, w, 1, base, IF base = 0 THEN 0 ELSE ZeroRun(w, base))

\* inet_pton(AF_INET): exactly four decimal parts 0..255 without leading
\* zeros; the result is [ok, bytes]
inet_pton4(t) ==
  LET parts == Split(t, Ord("."))
      good(p) == /\ AllDigits(p) /\ Len(p) <= 3
                 /\ (Len(p) > 1 => p[1] # Ord("0"))
                 /\ DecVal(p) <= 255
  IN IF /\ Len(parts) = 4
        /\ Len(t) > 0 /\ t[Len(t)] # Ord(".")
        /\ \A i \in 1..4 : good(parts[i])
     THEN [ok |-> TRUE, bytes |-> [i \in 1..4 |-> DecVal(parts[i])]]
     ELSE [ok |-> FALSE, bytes |-> <<>>]

NoAddr == [ok |-> FALSE, bytes |-> <<>>]

\* the tail of inet_pton(AF_INET6) once the text is consumed: tp bytes are
\* written, colon is the byte position of "::" (-1 for none)
Pton6Finish(acc, colon) ==
  IF colon # -1
  THEN IF Len(acc) = 16 THEN NoAddr
       ELSE [ok |-> TRUE,
             bytes |-> SubSeq(acc, 1, colon) \o Zeros(16 - Len(acc))
                         \o SubSeq(acc, colon + 1, Len(acc))]
  ELSE IF Len(acc) # 16 THEN NoAddr ELSE [ok |-> TRUE, bytes |-> acc]

RECURSIVE Pton6Scan(_, _, _, _, _, _, _)
\* the scanning loop of inet_pton(AF_INET6) from 1-based position i:
\* acc the bytes written, val / nd the current group and its digit count,
\* curtok the 1-based start of the current token
Pton6Scan(t, i, acc, colon, val, nd, curtok) ==
  IF i > Len(t)
  THEN IF nd > 0
       THEN (IF Len(acc) + 2 > 16 THEN NoAddr
             ELSE Pton6Finish(acc \o <<val \div 256, val % 256>>, colon))
       ELSE Pton6Finish(acc, colon)
  ELSE LET ch == t[i] IN
    IF IsXDigit(ch)
    THEN IF nd = 4 THEN NoAddr
         ELSE Pton6Scan(t, i + 1, acc, colon, (val * 16) + XDigitVal(ch), nd + 1, curtok)
    ELSE IF ch = Ord(":")
    THEN IF nd = 0
         THEN (IF colon # -1 THEN NoAddr
               ELSE Pton6Scan(t, i + 1, acc, Len(acc), val, nd, i + 1))
         ELSE IF i = Len(t) THEN NoAddr
         ELSE IF Len(acc) + 2 > 16 THEN NoAddr
         ELSE Pton6Scan(t, i + 1, acc \o <<val \div 256, val % 256>>, colon, 0, 0, i + 1)
    ELSE IF ch = Ord(".") /\ Len(acc) + 4 <= 16 /\ inet_pton4(SubSeq(t, curtok, Len(t))).ok
    THEN Pton6Finish(acc \o inet_pton4(SubSeq(t, curtok, Len(t))).bytes, colon)
    ELSE NoAddr

inet_pton6(t) ==
  IF Len(t) = 0 THEN NoAddr
  ELSE IF t[1] = Ord(":")
       THEN (IF Len(t) < 2 \/ t[2] # Ord(":") THEN NoAddr
             ELSE Pton6Scan(t, 2, <<>>, -1, 0, 0, 2))
       ELSE Pton6Scan(t, 1, <<>>, -1, 0, 0, 1)

\* getnameinfo(sa, NI_NUMERICHOST | NI_NUMERICSERV) of a sockaddr_in:
\* [status, host, service]
getnameinfo4(sock) ==
  [status |-> 0,
   host |-> inet_ntop4(Slice(sock, 4, 4)),
   service |-> Dec(ntohs(ReadU16Host(sock, 2)))]

IN6_IS_ADDR_LINKLOCAL(o) == o[1] = 254 /\ o[2] \div 64 = 2
IN6_IS_ADDR_MC_LINKLOCAL(o) == o[1] = 255 /\ o[2] % 16 = 2

\* getnameinfo of a sockaddr_in6: a non-zero scope-id is appended after '%',
\* as the interface name for link-local addresses the directory knows and
\* as a decimal number otherwise
getnameinfo6(dir, sock) ==
  LET o == Slice(sock, 8, 16)
      scope == ReadU32Host(sock, 24)
      named == (IN6_IS_ADDR_LINKLOCAL(o) \/ IN6_IS_ADDR_MC_LINKLOCAL(o))
                 /\ if_indexknown(dir, scope)
  IN [status |-> 0,
      host |-> inet_ntop6(o) \o
               (IF scope = U32(0) THEN <<>>
                ELSE <<Ord("%")>> \o (IF named THEN if_indextoname(dir, scope) ELSE Dec32(scope))),
      service |-> Dec(ntohs(ReadU16Host(sock, 2)))]

NoSockaddr == [ok |-> FALSE, addr |-> <<>>]

\* getaddrinfo(host, service, AI_NUMERICHOST | AI_NUMERICSERV): [ok, addr],
\* addr the sockaddr_in or sockaddr_in6 of the first result.  The service
\* is a decimal number, reduced to 16 bits; the host is a dotted quad, or an
\* IPv6 text with an optional %scope (an interface name for link-local
\* addresses, else a decimal number).
GaiLinkLocal(v6) ==
  v6.ok /\ (IN6_IS_ADDR_LINKLOCAL(v6.bytes) \/ IN6_IS_ADDR_MC_LINKLOCAL(v6.bytes))

\* the result for the parsed parts: port, the position pct of '%' (-1 for
\* none), the two readings v4 and v6 of the host, the scope text sc and the
\* index idx of the interface it names (0 when it names none)
GaiAddr(port, pct, v4, v6, sc, idx) ==
  LET scopeOk == pct = -1 \/ idx # 0 \/ (AllDigits(sc) /\ Len(sc) <= 9)
      scope == IF pct = -1 THEN 0 ELSE IF idx # 0 THEN idx ELSE DecVal(sc)
  IN IF v4.ok
     THEN [ok |-> TRUE,
           addr |-> U16Host(AF_INET) \o U16Host(htons(port)) \o v4.bytes \o Zeros(8)]
     ELSE IF v6.ok /\ scopeOk
     THEN [ok |-> TRUE,
           addr |-> U16Host(AF_INET6) \o U16Host(htons(port)) \o Zeros(4)
                      \o v6.bytes \o U32Host(U32(scope))]
     ELSE NoSockaddr

GaiScope(dir, port, pct, v4, v6, sc) ==
  GaiAddr(port, pct, v4, v6, sc, IF GaiLinkLocal(v6) THEN if_nametoindex(dir, sc) ELSE 0)

GaiHost(dir, host, port, pct) ==
  GaiScope(dir, port, pct, inet_pton4(host),
           inet_pton6(IF pct = -1 THEN host ELSE SubSeq(host, 1, pct)),
           IF pct = -1 THEN <<>> ELSE Substr(host, pct + 1))

getaddrinfo(dir, host, service) ==
  IF ~AllDigits(service) \/ Len(service) > 9 THEN NoSockaddr
  ELSE GaiHost(dir, host, DecVal(service) % 65536, Find(host, Ord("%")))

\* ------------------------------------------------------------------------
\* NetworkInterface: a value holding a name

NetworkInterface(name) == [name |-> name]
NoInterface == NetworkInterface(<<>>)

isValid(intf) == intf.name # <<>>

\* std::string::c_str() as the OS reads it: the characters before the first
\* NUL
c_str(s) ==
  IF \E i \in 1..Len(s) : s[i] = 0
  THEN SubSeq(s, 1, (CHOOSE i \in 1..Len(s) : s[i] = 0 /\ \A j \in 1..(i - 1) : s[j] # 0) - 1)
  ELSE s

getIndex(dir, intf) == if_nametoindex(dir, c_str(intf.name))
getName(intf) == intf.name

Absent == [has |-> FALSE, val |-> <<>>]
Present(v) == [has |-> TRUE, val |-> v]

fromString(dir, name) ==
  IF if_nametoindex(dir, c_str(name)) = 0 THEN Absent ELSE Present(NetworkInterface(name))

fromIntfIndex(dir, index) ==
  IF if_indexknown(dir, index) THEN Present(NetworkInterface(if_indextoname(dir, index)))
  ELSE Absent

\* ------------------------------------------------------------------------
\* Outcomes of an operation: it returns val ("ok"), throws ("throw"), fails
\* an assert and aborts ("assert"), or executes undefined behaviour ("ub":
\* the build decides what happens, nothing can be said about the result).

Ok(v) == [kind |-> "ok", val |-> v]
Throw(what) == [kind |-> "throw", val |-> what]
Undefined(what) == [kind |-> "ub", val |-> what]

\* assert(false), reached by the methods a family does not implement
assertWrongFamilyType == [kind |-> "assert", val |-> "wrong family"]

\* ------------------------------------------------------------------------
\* SocketMethods: the typed record is copied out of the storage on
\* construction and copied back on destruction of a non-const call

Sock(storage, f) == Slice(storage, 0, family2type(f))
CopyBack(storage, sock) == Memcpy(storage, 0, sock, Len(sock))

\* strnlen(s + off, n): the number of bytes before the first zero byte, at
\* most n
strnlen(s, off, n) ==
  IF \E i \in 1..n : s[off + i] = 0
  THEN (CHOOSE i \in 1..n : s[off + i] = 0 /\ \A j \in 1..(i - 1) : s[off + j] # 0) - 1
  ELSE n

\* ---- IPv4
\* init with the port stored in host order
ipv4_init_hostport(sock, saddr, port) ==
  Memcpy(Memcpy(sock, 4, U32Host(saddr), 4), 2, U16Host(port), 2)

ipv4_init(sock, saddr, port) ==
  Memcpy(Memcpy(sock, 4, U32Host(saddr), 4), 2, U16Host(htons(port)), 2)
ipv4_init_octets(sock, octets, port) == ipv4_init(sock, ReadU32Host(octets, 0), port)
ipv4_isMulticast(sock) == ntohl(ReadU32Host(sock, 4))[1] \div 4096 = 14

\* the link-local test applied to the address without the conversion to host
\* order
ipv4_isLinkLocal_noswap(sock) == ReadU32Host(sock, 4)[1] = 43518

ipv4_isLinkLocal(sock) == ntohl(ReadU32Host(sock, 4))[1] = 43518
\* the port read without the conversion to host order
ipv4_port_noswap(sock) == ReadU16Host(sock, 2)
ipv4_port(sock) == ntohs(ReadU16Host(sock, 2))
ipv4_setPort(sock, p) == Memcpy(sock, 2, U16Host(htons(p)), 2)

\* ---- IPv6
ipv6_init(dir, sock, sw, port, intf) ==
  LET words == [i \in 1..8 |-> htons(sw[i])]
      raw == [i \in 1..16 |-> U16Host(words[(i + 1) \div 2])[2 - (i % 2)]]
  IN Memcpy(Memcpy(Memcpy(sock, 8, raw, 16), 2, U16Host(htons(port)), 2),
            24, U32Host(U32(getIndex(dir, intf))), 4)
ipv6_isMulticast(sock) == sock[9] = 255
ipv6_isLinkLocal(sock) == sock[9] = 254 /\ sock[10] = 128
ipv6_setInterface(dir, sock, intf) == Memcpy(sock, 24, U32Host(U32(getIndex(dir, intf))), 4)
\* the lookup of the flow information field instead of the scope-id
ipv6_interface_flowinfo(dir, sock) == fromIntfIndex(dir, ReadU32Host(sock, 4))

ipv6_interface(dir, sock) == fromIntfIndex(dir, ReadU32Host(sock, 24))
ipv6_port(sock) == ntohs(ReadU16Host(sock, 2))
ipv6_setPort(sock, p) == Memcpy(sock, 2, U16Host(htons(p)), 2)

\* ---- IPv4 and IPv6 common: IPSocketImpl::toString
\* IPSocketImpl::toString with the port suffix appended unconditionally
IPSocketImpl_toString_always(dir, f, sock) ==
  LET ni == IF f = "ipv4" THEN getnameinfo4(sock) ELSE getnameinfo6(dir, sock)
  IN IF ni.status # 0 THEN Throw("gai_strerror")
     ELSE Ok((IF f = "ipv6" THEN <<Ord("[")>> \o ni.host \o <<Ord("]")>> ELSE ni.host)
               \o <<Ord(":")>> \o ni.service)

IPSocketImpl_toString(dir, f, sock) ==
  LET ni == IF f = "ipv4" THEN getnameinfo4(sock) ELSE getnameinfo6(dir, sock)
      port == IF f = "ipv4" THEN ipv4_port(sock) ELSE ipv6_port(sock)
  IN IF ni.status # 0 THEN Throw("gai_strerror")
     ELSE IF port # 0
          THEN Ok((IF f = "ipv6" THEN <<Ord("[")>> \o ni.host \o <<Ord("]")>> ELSE ni.host)
                    \o <<Ord(":")>> \o ni.service)
          ELSE Ok(ni.host)

\* ---- Ethernet
ethernet_init(dir, sock, mac, protocol, intf) ==
  Memcpy(Memcpy(Memcpy(Memcpy(sock, OffsetSllAddr, mac, ETH_ALEN),
                       2, U16Host(htons(protocol)), 2),
                4, U32Host(U32(getIndex(dir, intf))), 4),
         OffsetSllHalen, <<ETH_ALEN>>, 1)
\* the length as the full size of the record, whatever sll_halen holds
ethernet_socketLength_fixed(sock) == SizeofLl

ethernet_socketLength(sock) == (SizeofLl - SizeofSllAddr) + sock[OffsetSllHalen + 1]
\* the test on the highest bit of the first octet instead of the lowest
ethernet_isMulticast_highBit(sock) == sock[OffsetSllAddr + 1] \div 128 # 0

ethernet_isMulticast(sock) == sock[OffsetSllAddr + 1] % 2 # 0
ethernet_setInterface(dir, sock, intf) == Memcpy(sock, 4, U32Host(U32(getIndex(dir, intf))), 4)
ethernet_interface(dir, sock) == fromIntfIndex(dir, ReadU32Host(sock, 4))
ethernet_protocol(sock) == ntohs(ReadU16Host(sock, 2))
ethernet_setProtocol(sock, p) == Memcpy(sock, 2, U16Host(htons(p)), 2)

RECURSIVE HexOctets(_, _, _)
\* the stream after writing ':' and two upper-case hex digits per octet
HexOctets(sock, k, n) ==
  IF k >= n THEN <<>>
  ELSE <<Ord(":"), UpperXDigit(sock[OffsetSllAddr + k + 1] \div 16),
         UpperXDigit(sock[OffsetSllAddr + k + 1] % 16)>> \o HexOctets(sock, k + 1, n)

\* the text with the ':' before the first octet left in place
ethernet_toString_leadingColon(sock) ==
  LET halen == sock[OffsetSllHalen + 1] IN
  IF halen > SizeofSllAddr THEN Undefined("read past sll_addr")
  ELSE Ok(HexOctets(sock, 0, halen))

ethernet_toString(sock) ==
  LET halen == sock[OffsetSllHalen + 1] IN
  IF halen > SizeofSllAddr THEN Undefined("read past sll_addr")
  ELSE IF halen = 0 THEN Throw("std::out_of_range")
  ELSE Ok(Substr(HexOctets(sock, 0, halen), 1))

\* ---- Unix
kMaxUnixPathLength == (SizeofStorage - OffsetSunPath) - 1

unix_init(sock, path) ==
  LET len == Min(Len(path), kMaxUnixPathLength) IN
  IF Len(path) > kMaxUnixPathLength THEN [kind |-> "assert", val |-> "path.size() <= kMaxUnixPathLength"]
  ELSE IF len + 1 > SizeofSunPath THEN Undefined("write past sun_path")
  ELSE Ok(Memcpy(sock, OffsetSunPath, SubstrN(path, 0, len) \o <<0>>, len + 1))
unix_socketLength(sock) == (OffsetSunPath + strnlen(sock, OffsetSunPath, SizeofSunPath)) + 1
unix_toString(sock) == Slice(sock, OffsetSunPath, strnlen(sock, OffsetSunPath, SizeofSunPath))

\* ------------------------------------------------------------------------
\* Dispatch on the family stored in the storage

\* cxxutils::constexpr_apply(value, max, f): f is applied when value is one
\* of the enumerators below max, and the result is empty otherwise
constexpr_apply(value, max) == value # max

\* operator* of the optional a dispatch returns
Deref(o) == IF o.has THEN o.val ELSE Undefined("dereference of an empty optional")

Impl_socketLength(f, sock) ==
  CASE f = "ipv4" -> Ok(SizeofIn)
    [] f = "ipv6" -> Ok(SizeofIn6)
    [] f = "ethernet" -> Ok(ethernet_socketLength(sock))
    [] f = "unixSocket" -> Ok(unix_socketLength(sock))

Impl_toString(dir, f, sock) ==
  CASE f = "ipv4" -> IPSocketImpl_toString(dir, f, sock)
    [] f = "ipv6" -> IPSocketImpl_toString(dir, f, sock)
    [] f = "ethernet" -> ethernet_toString(sock)
    [] f = "unixSocket" -> Ok(unix_toString(sock))

Impl_isMulticast(f, sock) ==
  CASE f = "ipv4" -> Ok(ipv4_isMulticast(sock))
    [] f = "ipv6" -> Ok(ipv6_isMulticast(sock))
    [] f = "ethernet" -> Ok(ethernet_isMulticast(sock))
    [] f = "unixSocket" -> assertWrongFamilyType

Impl_isLinkLocal(f, sock) ==
  CASE f = "ipv4" -> Ok(ipv4_isLinkLocal(sock))
    [] f = "ipv6" -> Ok(ipv6_isLinkLocal(sock))
    [] f = "ethernet" -> Ok(TRUE)
    [] f = "unixSocket" -> assertWrongFamilyType

Impl_interface(dir, f, sock) ==
  CASE f = "ipv4" -> Ok(Absent)
    [] f = "ipv6" -> Ok(ipv6_interface(dir, sock))
    [] f = "ethernet" -> Ok(ethernet_interface(dir, sock))
    [] f = "unixSocket" -> assertWrongFamilyType

Impl_port(f, sock) ==
  CASE f = "ipv4" -> Ok(ipv4_port(sock))
    [] f = "ipv6" -> Ok(ipv6_port(sock))
    [] f = "ethernet" -> assertWrongFamilyType
    [] f = "unixSocket" -> assertWrongFamilyType

Impl_protocol(f, sock) ==
  CASE f = "ipv4" -> assertWrongFamilyType
    [] f = "ipv6" -> assertWrongFamilyType
    [] f = "ethernet" -> Ok(ethernet_protocol(sock))
    [] f = "unixSocket" -> assertWrongFamilyType

\* the setters run on a non-const dispatch: the value is the record that
\* is copied back into the storage
Impl_setInterface(dir, intf, f, sock) ==
  CASE f = "ipv4" -> Ok(sock)
    [] f = "ipv6" -> Ok(ipv6_setInterface(dir, sock, intf))
    [] f = "ethernet" -> Ok(ethernet_setInterface(dir, sock, intf))
    [] f = "unixSocket" -> assertWrongFamilyType

\* setPort that leaves a record without a port as it is
Impl_setPort_silent(p, f, sock) ==
  CASE f = "ipv4" -> Ok(ipv4_setPort(sock, p))
    [] f = "ipv6" -> Ok(ipv6_setPort(sock, p))
    [] f = "ethernet" -> Ok(sock)
    [] f = "unixSocket" -> Ok(sock)

Impl_setPort(p, f, sock) ==
  CASE f = "ipv4" -> Ok(ipv4_setPort(sock, p))
    [] f = "ipv6" -> Ok(ipv6_setPort(sock, p))
    [] f = "ethernet" -> assertWrongFamilyType
    [] f = "unixSocket" -> assertWrongFamilyType

Impl_setProtocol(p, f, sock) ==
  CASE f = "ipv4" -> assertWrongFamilyType
    [] f = "ipv6" -> assertWrongFamilyType
    [] f = "ethernet" -> Ok(ethernet_setProtocol(sock, p))
    [] f = "unixSocket" -> assertWrongFamilyType

\* sockcall(storage, lambda): lambda is what the caller's lambda returns
\* for the family of s and the storage seen as that family's record,
\* TypedSock(s); it is applied only when the family is an enumerator
\* below unspecified
family(s) == unix2addr(ss_family(s))
valid(s) == family(s) # "unspecified"
TypedSock(s) == Sock(s, family(s))
sockcall(s, lambda) ==
  IF constexpr_apply(unix2addr(ss_family(s)), "unspecified") THEN Present(lambda) ELSE Absent

\* ------------------------------------------------------------------------
\* NetworkAddress: constructors.  Uninit(g) is a storage the constructor
\* does not initialise, holding whatever the memory held (g in every byte).

Uninit(g) == [i \in 1..SizeofStorage |-> g]

NetworkAddress_default == StorageOfFamily(AF_UNSPEC)

NetworkAddress_octets(o1, o2, o3, o4, port) ==
  LET storage == StorageOfFamily(AF_INET) IN
  CopyBack(storage, ipv4_init_octets(Sock(storage, "ipv4"), <<o1, o2, o3, o4>>, port))

NetworkAddress_uint32(saddr, port) ==
  LET storage == StorageOfFamily(AF_INET) IN
  CopyBack(storage, ipv4_init(Sock(storage, "ipv4"), htonl(saddr), port))

NetworkAddress_span4(ipv4, port) ==
  LET storage == StorageOfFamily(AF_INET) IN
  CopyBack(storage, ipv4_init_octets(Sock(storage, "ipv4"), ipv4, port))

NetworkAddress_words(dir, sw, port, intf) ==
  LET storage == StorageOfFamily(AF_INET6) IN
  CopyBack(storage, ipv6_init(dir, Sock(storage, "ipv6"), sw, port, intf))

NetworkAddress_mac(dir, mac, protocol, intf) ==
  LET storage == StorageOfFamily(AF_PACKET) IN
  CopyBack(storage, ethernet_init(dir, Sock(storage, "ethernet"), mac, protocol, intf))

\* NetworkAddress(std::string const& path): an outcome, its value the storage
NetworkAddress_path(path) ==
  LET storage == StorageOfFamily(AF_UNIX)
      r == unix_init(Sock(storage, "unixSocket"), path)
  IN IF r.kind = "ok" THEN Ok(CopyBack(storage, r.val)) ELSE r

fromUNIXSocketPath(path) == NetworkAddress_path(path)

\* NetworkAddress(::sockaddr const& other, ::socklen_t len): other is the
\* caller's object, of Len(other) bytes
NetworkAddress_sockaddr(other, len, g) ==
  LET f == unix2addr(ReadU16Host(other, 0))
      n == IF constexpr_apply(f, "unspecified") THEN Min(len, family2type(f)) ELSE SizeofSockaddr
  IN IF n > Len(other) THEN Undefined("read past the sockaddr passed in")
     ELSE Ok(Memcpy(Uninit(g), 0, other, n))

fromPOSIXSocketAddress(addr, len, g) == NetworkAddress_sockaddr(addr, len, g)

\* ------------------------------------------------------------------------
\* NetworkAddress: accessors

socketLength(s) == Deref(sockcall(s, Impl_socketLength(family(s), TypedSock(s))))
toString(dir, s) == Deref(sockcall(s, Impl_toString(dir, family(s), TypedSock(s))))
isMulticast(s) == Deref(sockcall(s, Impl_isMulticast(family(s), TypedSock(s))))
isLinkLocal(s) == Deref(sockcall(s, Impl_isLinkLocal(family(s), TypedSock(s))))
port(s) == Deref(sockcall(s, Impl_port(family(s), TypedSock(s))))
protocol(s) == Deref(sockcall(s, Impl_protocol(family(s), TypedSock(s))))

\* interface() returns the optional of the dispatch, flattened with the
\* optional the family returns
interface(dir, s) ==
  LET r == sockcall(s, Impl_interface(dir, family(s), TypedSock(s))) IN
  IF r.has THEN r.val ELSE Ok(Absent)

\* ------------------------------------------------------------------------
\* NetworkAddress: copy, move, comparison

\* std::memcpy(&storage, &o.socket(), o.socketLength()) into storage dst
CopyBytes(dst, o) ==
  LET n == socketLength(o) IN
  IF n.kind # "ok" THEN n
  ELSE IF n.val > SizeofStorage THEN Undefined("memcpy past the storage")
  ELSE Ok(Memcpy(dst, 0, o, n.val))

NetworkAddress_copy(o, g) == CopyBytes(Uninit(g), o)

\* the moved-from source: o.storage.ss_family = AF_UNSPEC
MovedFrom(o) == Memcpy(o, 0, U16Host(AF_UNSPEC), 2)

\* move construction and move assignment: an outcome whose value is
\* <<destination, source>>
NetworkAddress_move(o, g) ==
  LET r == CopyBytes(Uninit(g), o) IN
  IF r.kind = "ok" THEN Ok(<<r.val, MovedFrom(o)>>) ELSE r

MoveAssign(dst, o) ==
  LET r == CopyBytes(dst, o) IN
  IF r.kind = "ok" THEN Ok(<<r.val, MovedFrom(o)>>) ELSE r

\* std::memcmp of the first n bytes: the difference of the first bytes that
\* differ
memcmp(x, y, n) ==
  IF \E i \in 1..n : x[i] # y[i]
  THEN LET i == CHOOSE k \in 1..n : x[k] # y[k] /\ \A j \in 1..(k - 1) : x[j] = y[j]
       IN x[i] - y[i]
  ELSE 0

cmp(s, o) ==
  LET len1 == socketLength(s)
      len2 == socketLength(o)
  IN IF len1.kind # "ok" THEN len1
     ELSE IF len2.kind # "ok" THEN len2
     ELSE IF len1.val = len2.val
          THEN (IF len1.val > SizeofStorage THEN Undefined("memcmp past the storage")
                ELSE Ok(memcmp(s, o, len1.val)))
          ELSE Ok(len1.val - len2.val)

\* the comparison operators, as outcomes
Rel(r, rel) ==
  IF r.kind # "ok" THEN r
  ELSE Ok(CASE rel = "==" -> r.val = 0
            [] rel = "!=" -> r.val # 0
            [] rel = "<" -> r.val < 0
            [] rel = ">" -> r.val > 0)
OpEq(s, o) == Rel(cmp(s, o), "==")
OpNe(s, o) == Rel(cmp(s, o), "!=")
OpLt(s, o) == Rel(cmp(s, o), "<")
OpGt(s, o) == Rel(cmp(s, o), ">")

\* ------------------------------------------------------------------------
\* NetworkAddress: the with-operations.  The copy is modified through a
\* non-const dispatch and returned.

\* auto result = *this: the rest of the operation runs when the copy is made
OnCopy(result, rest) == IF result.kind # "ok" THEN result ELSE rest

\* assert(success), then return result with the record the setter wrote
WithCall(result, success) ==
  IF ~success.has THEN [kind |-> "assert", val |-> "success"]
  ELSE IF success.val.kind # "ok" THEN success.val
  ELSE Ok(CopyBack(result, success.val.val))

setInterface(dir, result, intf) ==
  WithCall(result, sockcall(result, Impl_setInterface(dir, intf, family(result), TypedSock(result))))
setPort(result, p) ==
  WithCall(result, sockcall(result, Impl_setPort(p, family(result), TypedSock(result))))
setProtocol(result, p) ==
  WithCall(result, sockcall(result, Impl_setProtocol(p, family(result), TypedSock(result))))

withInterface(dir, s, intf, g) ==
  OnCopy(NetworkAddress_copy(s, g), setInterface(dir, NetworkAddress_copy(s, g).val, intf))
withPort(s, p, g) ==
  OnCopy(NetworkAddress_copy(s, g), setPort(NetworkAddress_copy(s, g).val, p))
withProtocol(s, p, g) ==
  OnCopy(NetworkAddress_copy(s, g), setProtocol(NetworkAddress_copy(s, g).val, p))

\* ------------------------------------------------------------------------
\* NetworkAddress: parsing

\* the split made when a ']' stands at or after the last ':'
SplitAt_bracketAfter(ipString, firstloc, lastloc, bracket) ==
  IF lastloc = -1 \/ (firstloc # lastloc /\ (bracket = -1 \/ bracket < lastloc))
  THEN <<ipString, <<>>>>
  ELSE <<SubstrN(ipString, 0, lastloc), Substr(ipString, lastloc + 1)>>

\* the inner lambda of fromIPString: <<ipPart, portPart>>
SplitAt(ipString, firstloc, lastloc, bracket) ==
  IF lastloc = -1 \/ (firstloc # lastloc /\ (bracket = -1 \/ bracket > lastloc))
  THEN <<ipString, <<>>>>
  ELSE <<SubstrN(ipString, 0, lastloc), Substr(ipString, lastloc + 1)>>

SplitHostPort(ipString) ==
  SplitAt(ipString, Find(ipString, Ord(":")), RFind(ipString, Ord(":")),
          RFind(ipString, Ord("]")))

\* the outer lambda: front() and back() of the host part are read, which is
\* undefined for an empty host part
StripBrackets(result) ==
  IF Len(result[1]) = 0 THEN Undefined("front() of an empty string")
  ELSE IF result[1][1] = Ord("[") /\ result[1][Len(result[1])] = Ord("]")
       THEN Ok(<<SubstrN(result[1], 1, Len(result[1]) - 2), result[2]>>)
       ELSE Ok(result)

HostPortParts(ipString) == StripBrackets(SplitHostPort(ipString))

\* the value a function returns through std::optional<NetworkAddress>: the
\* optional's payload is move-constructed from the local
OptionalOf(r) == IF r.kind = "ok" THEN Ok(Present(r.val[1])) ELSE r
ReturnOptional(storage, g) == OptionalOf(NetworkAddress_move(storage, g))

\* the NetworkAddress built from the first getaddrinfo result, if any
FromAddrinfo(ainfo, g) ==
  IF ~ainfo.ok THEN Ok(Absent)
  ELSE ReturnOptional(Memcpy(NetworkAddress_default, 0, ainfo.addr, Len(ainfo.addr)), g)

FromParts(dir, parts, defaultPort, parsePortInString, g) ==
  IF parts.kind # "ok" THEN parts
  ELSE FromAddrinfo(
         getaddrinfo(dir, parts.val[1],
                     IF parsePortInString /\ Len(parts.val[2]) # 0
                     THEN parts.val[2] ELSE Dec(defaultPort)), g)

fromIPString(dir, ipString, defaultPort, parsePortInString, g) ==
  FromParts(dir, HostPortParts(ipString), defaultPort, parsePortInString, g)

\* ss >> std::hex >> result on the text of one group: [ok, num].  White
\* space is skipped, a sign and a 0x prefix are accepted, the digits are
\* read up to the first character that is not a hex digit, and whatever
\* follows is left unread.
RECURSIVE HexRun(_, _)
HexRun(t, i) == IF i > Len(t) \/ ~IsXDigit(t[i]) THEN 0 ELSE 1 + HexRun(t, i + 1)

RECURSIVE HexVal(_, _, _)
HexVal(t, i, n) == IF n = 0 THEN 0 ELSE (16 * HexVal(t, i, n - 1)) + XDigitVal(t[i + n - 1])

RECURSIVE SkipSpace(_, _)
SkipSpace(t, i) == IF i <= Len(t) /\ t[i] = Ord(" ") THEN SkipSpace(t, i + 1) ELSE i

HexDigits(t, neg, i2, n) ==
  IF n = 0 THEN [ok |-> FALSE, num |-> 0]
  ELSE [ok |-> TRUE, num |-> IF neg THEN 0 - HexVal(t, i2, n) ELSE HexVal(t, i2, n)]

HexPrefix(t, neg, i1) ==
  IF /\ i1 + 1 <= Len(t) /\ t[i1] = Ord("0")
     /\ (t[i1 + 1] = Ord("x") \/ t[i1 + 1] = Ord("X"))
  THEN HexDigits(t, neg, i1 + 2, HexRun(t, i1 + 2))
  ELSE HexDigits(t, neg, i1, HexRun(t, i1))

HexSign(t, i0) ==
  IF i0 <= Len(t) /\ (t[i0] = Ord("-") \/ t[i0] = Ord("+"))
  THEN HexPrefix(t, t[i0] = Ord("-"), i0 + 1)
  ELSE HexPrefix(t, FALSE, i0)

ExtractHexInt(t) == HexSign(t, SkipSpace(t, 1))

\* one group of the MAC text, as the loop body reads it: [ok, num]
MacGroup(part, r) ==
  IF Len(part) = 0 \/ Len(part) > 2 \/ ~r.ok \/ r.num < 0 \/ r.num > 255
  THEN [ok |-> FALSE, num |-> 0] ELSE r

MacOfGroups(dir, groups, g) ==
  IF \E k \in 1..ETH_ALEN : ~groups[k].ok THEN Ok(Absent)
  ELSE ReturnOptional(
         NetworkAddress_mac(dir, [k \in 1..ETH_ALEN |-> groups[k].num], 0, NoInterface), g)

MacOfParts(dir, parts, g) ==
  IF Len(parts) # ETH_ALEN THEN Ok(Absent)
  ELSE MacOfGroups(dir, [k \in 1..ETH_ALEN |-> MacGroup(parts[k], ExtractHexInt(parts[k]))], g)

fromMACString(dir, macString, g) == MacOfParts(dir, Split(macString, Ord(":")), g)

\* ------------------------------------------------------------------------
\* Inputs

NPorts == 2
NGarbage == 2
MaxSteps == 2

PortList == <<0, 8080, 80, 65535, 443>>
Ports == {PortList[i] : i \in 1..Min(NPorts, Len(PortList))}

\* what uninitialised memory may hold
GarbageList == <<0, 165, 255, 1>>
Garbage == {GarbageList[i] : i \in 1..Min(NGarbage, Len(GarbageList))}

V4Addrs == {<<192, 168, 1, 1>>, <<10, 0, 0, 1>>, <<224, 0, 0, 1>>, <<169, 254, 1, 2>>}
V4Hosts == {<<49320, 257>>, <<2560, 1>>}

V6Addrs ==
  {<<8193, 3512, 34211, 0, 0, 35374, 880, 29492>>,
   <<65152, 0, 0, 0, 514, 46079, 65054, 33577>>,
   <<65282, 0, 0, 0, 0, 0, 0, 1>>,
   <<0, 0, 0, 0, 0, 65535, 258, 772>>,
   <<0, 0, 0, 0, 0, 0, 0, 1>>,
   <<65168, 0, 0, 0, 0, 0, 0, 1>>}

Macs == {<<0, 26, 43, 60, 77, 94>>, <<255, 238, 221, 204, 187, 170>>, <<1, 0, 94, 0, 0, 251>>}
Protocols == {0, 2048}

Directory ==
  {[name |-> Txt(<<"l", "o">>), index |-> 1],
   [name |-> Txt(<<"e", "t", "h", "0">>), index |-> 2]}

Interfaces ==
  {NoInterface, NetworkInterface(Txt(<<"e", "t", "h", "0">>)),
   NetworkInterface(Txt(<<"w", "l", "a", "n", "9">>))}

LongPath(n) == [i \in 1..n |-> Ord("a") + (i % 26)]
Paths ==
  {<<>>, Txt(<<"/", "t", "m", "p", "/", "s", "o", "c", "k", "e", "t">>),
   LongPath(SizeofSunPath - 1), LongPath(SizeofSunPath),
   LongPath(kMaxUnixPathLength), LongPath(kMaxUnixPathLength + 1)}

\* the objects a caller may hand to fromPOSIXSocketAddress
BlobIn(p, o, zero) == U16Host(AF_INET) \o U16Host(htons(p)) \o o \o zero
BlobIn6(p, flow, o, scope) ==
  U16Host(AF_INET6) \o U16Host(htons(p)) \o U32Host(U32(flow)) \o o \o U32Host(U32(scope))
BlobLl(proto, ifindex, halen, hw) ==
  U16Host(AF_PACKET) \o U16Host(htons(proto)) \o U32Host(U32(ifindex)) \o <<1, 0, 0, halen>> \o hw
BlobUn(path) == U16Host(AF_UNIX) \o path
Bytes6(sw) == [i \in 1..16 |-> IF i % 2 = 1 THEN sw[(i + 1) \div 2] \div 256 ELSE sw[i \div 2] % 256]

Blobs ==
  {BlobIn(8080, <<192, 168, 1, 1>>, Zeros(8)),
   BlobIn(8080, <<192, 168, 1, 1>>, <<1, 2, 3, 4, 5, 6, 7, 8>>),
   BlobIn6(443, 0, Bytes6(<<8193, 3512, 34211, 0, 0, 35374, 880, 29492>>), 0),
   BlobIn6(443, 7, Bytes6(<<8193, 3512, 34211, 0, 0, 35374, 880, 29492>>), 0),
   BlobIn6(0, 0, Bytes6(<<65152, 0, 0, 0, 514, 46079, 65054, 33577>>), 2),
   BlobLl(2048, 2, 6, <<0, 26, 43, 60, 77, 94, 0, 0>>),
   BlobLl(0, 0, 0, Zeros(8)),
   BlobLl(0, 9, 3, <<1, 2, 3, 0, 0, 0, 0, 0>>),
   BlobLl(0, 0, 8, <<171, 205, 239, 1, 35, 69, 103, 137>>),
   BlobLl(0, 2, 20, [i \in 1..20 |-> i]),
   BlobLl(0, 2, 200, [i \in 1..8 |-> i]),
   BlobUn(Txt(<<"/", "t", "m", "p">>) \o Zeros(SizeofSunPath - 4)),
   BlobUn(LongPath(SizeofSunPath)),
   U16Host(99) \o [i \in 1..14 |-> i],
   U16Host(AF_UNSPEC) \o Zeros(14)}

\* the default maxlen, std::numeric_limits<::socklen_t>::max(), as the largest
\* number TLC's integers hold: it exceeds every record size either way
MaxSocklen == 2147483647
BlobLens == {MaxSocklen, 8, 1}

IPStrings ==
  {<<>>,
   Txt(<<":", "8", "0">>),
   Txt(<<"1", "9", "2", ".", "1", "6", "8", ".", "1", ".", "1", "0", "0", ":", "3", "0", "0", "0">>),
   Txt(<<"1", "0", ".", "0", ".", "0", ".", "1">>),
   Txt(<<"1", "0", ".", "0", ".", "0", ".", "1", ":", "x">>),
   Txt(<<"2", "0", "0", "1", ":", "0", "d", "b", "8", ":", ":", "1">>),
   Txt(<<"[", "2", "0", "0", "1", ":", "0", "d", "b", "8", ":", ":", "1", "]">>),
   Txt(<<"[", "2", "0", "0", "1", ":", "0", "d", "b", "8", ":", ":", "1", "]", ":", "8", "0", "8", "0">>),
   Txt(<<"[", "]">>),
   Txt(<<"[", ":", ":", "1", "]">>),
   Txt(<<"1", "]", ":", "2", ":", "3", "]">>),
   Txt(<<"f", "e", "8", "0", ":", ":", "1", "%", "e", "t", "h", "0">>),
   Txt(<<"n", "o", "t", "a", "n", "i", "p">>)}

MACStrings ==
  {<<>>,
   Txt(<<"0", "0", ":", "1", "A", ":", "2", "B", ":", "3", "C", ":", "4", "D", ":", "5", "E">>),
   Txt(<<"0", "0", ":", "1", "A", ":", "2", "B", ":", "3", "C", ":", "4", "D", ":", "5", "E", ":">>),
   Txt(<<"0", "0", ":", "1", "A", ":", "2", "B", ":", "3", "C", ":", "4", "D">>),
   Txt(<<"0", ":", "1", ":", "2", ":", "3", ":", "4", ":", "5">>),
   Txt(<<"0", "0", ":", "1", "G", ":", "2", "B", ":", "3", "C", ":", "4", "D", ":", "5", "E">>),
   Txt(<<"0", "0", ":", ":", "2", "B", ":", "3", "C", ":", "4", "D", ":", "5", "E">>),
   Txt(<<"0", "0", ":", "1", "A", "B", ":", "2", "B", ":", "3", "C", ":", "4", "D", ":", "5", "E">>),
   Txt(<<"G", "G", ":", "1", "A", ":", "2", "B", ":", "3", "C", ":", "4", "D", ":", "5", "E">>)}

\* ------------------------------------------------------------------------
\* The state: three NetworkAddress objects a, b and c (their storages), the
\* outcome of the last operation, the number of operations applied to the
\* objects since a was constructed, and the OS interface directory.
\* out.recv is the receiver (or source) as it was before the operation and
\* out.arg the operation's argument.
\*
\* A run constructs a, applies up to MaxSteps operations that construct or
\* assign an object, and ends with one read-only operation: the read-only
\* operations change no object, so nothing is reachable after one that is
\* not reachable without it.

Result(op, r, recv, arg) ==
  [op |-> op, kind |-> r.kind, val |-> r.val, recv |-> recv, arg |-> arg]

ReadOnlyOps ==
  {"valid", "family", "toString", "socketLength", "isMulticast", "isLinkLocal",
   "interface", "port", "protocol", "cmp"}

\* after a failed assert or undefined behaviour the run is over
Halted == out.kind \in {"assert", "ub"}
Running == ~Halted /\ out.op \notin ReadOnlyOps

Init ==
  /\ a = NetworkAddress_default
  /\ b = NetworkAddress_default
  /\ c = NetworkAddress_default
  /\ out = Result("start", Ok(<<>>), <<>>, <<>>)
  /\ steps = 0
  /\ ifdir = Directory
  /\ iface = NoInterface
  /\ ifaddrs = <<>>

\* the construction of a, the first operation of a run
Fresh(op, r, arg) ==
  /\ out.op = "start"
  /\ a' = (IF r.kind = "ok" THEN r.val ELSE a)
  /\ out' = Result(op, r, <<>>, arg)
  /\ UNCHANGED <<b, c, steps, ifdir, iface, ifaddrs>>

\* auto a = *f(...), f returning std::optional<NetworkAddress>: a is
\* copy-constructed from the value when there is one
FreshOptional(op, r, arg, g) ==
  LET v == IF r.kind = "ok" /\ r.val.has THEN NetworkAddress_copy(r.val.val, g) ELSE r IN
  /\ out.op = "start"
  /\ a' = (IF r.kind = "ok" /\ r.val.has /\ v.kind = "ok" THEN v.val ELSE a)
  /\ out' = Result(op, IF r.kind = "ok" /\ r.val.has /\ v.kind # "ok" THEN v ELSE r, <<>>, arg)
  /\ UNCHANGED <<b, c, steps, ifdir, iface, ifaddrs>>

ConstructDefault == Fresh("NetworkAddress()", Ok(NetworkAddress_default), <<>>)

ConstructOctets ==
  \E o \in V4Addrs, p \in Ports :
    Fresh("NetworkAddress(o1..o4)", Ok(NetworkAddress_octets(o[1], o[2], o[3], o[4], p)), <<o, p>>)

ConstructUint32 ==
  \E h \in V4Hosts, p \in Ports :
    Fresh("NetworkAddress(uint32)", Ok(NetworkAddress_uint32(h, p)), <<h, p>>)

ConstructSpan4 ==
  \E o \in V4Addrs, p \in Ports :
    Fresh("NetworkAddress(span4)", Ok(NetworkAddress_span4(o, p)), <<o, p>>)

ConstructWords ==
  \E w \in V6Addrs, p \in Ports, intf \in Interfaces :
    Fresh("NetworkAddress(w1..w8)", Ok(NetworkAddress_words(ifdir, w, p, intf)), <<w, p, intf>>)

ConstructMac ==
  \E m \in Macs, p \in Protocols, intf \in Interfaces :
    Fresh("NetworkAddress(mac)", Ok(NetworkAddress_mac(ifdir, m, p, intf)), <<m, p, intf>>)

ConstructPath ==
  \E path \in Paths : Fresh("fromUNIXSocketPath", fromUNIXSocketPath(path), path)

ConstructPosix ==
  \E blob \in Blobs, len \in BlobLens, g \in Garbage :
    Fresh("fromPOSIXSocketAddress", fromPOSIXSocketAddress(blob, len, g), <<blob, len>>)

FromIPString ==
  \E t \in IPStrings, p \in Ports, parse \in BOOLEAN, g \in Garbage :
    FreshOptional("fromIPString", fromIPString(ifdir, t, p, parse, g), <<t, p, parse>>, g)

FromMACString ==
  \E t \in MACStrings, g \in Garbage :
    FreshOptional("fromMACString", fromMACString(ifdir, t, g), t, g)

\* b is constructed from the result of an operation on a
Derive(op, r, arg) ==
  /\ Running /\ steps < MaxSteps
  /\ steps' = steps + 1
  /\ b' = (IF r.kind = "ok" THEN r.val ELSE b)
  /\ out' = Result(op, r, a, arg)
  /\ UNCHANGED <<a, c, ifdir, iface, ifaddrs>>

Copy == \E g \in Garbage : Derive("copy", NetworkAddress_copy(a, g), <<>>)

WithPort == \E p \in Ports, g \in Garbage : Derive("withPort", withPort(a, p, g), p)
WithProtocol == \E p \in Protocols, g \in Garbage : Derive("withProtocol", withProtocol(a, p, g), p)
WithInterface ==
  \E intf \in Interfaces, g \in Garbage :
    Derive("withInterface", withInterface(ifdir, a, intf, g), intf)

\* s = a.toString(); b = *NetworkAddress::fromIPString(s), when there is a
\* value: the step that follows CallToString, whose string is out.val
Reparse(r) ==
  /\ out.op = "toString" /\ out.kind = "ok" /\ steps < MaxSteps
  /\ steps' = steps + 1
  /\ b' = (IF r.kind = "ok" /\ r.val.has THEN r.val.val ELSE b)
  /\ out' = Result("fromIPString(toString)", r, a, out.val)
  /\ UNCHANGED <<a, c, ifdir, iface, ifaddrs>>

RoundTripIP == \E g \in Garbage : Reparse(fromIPString(ifdir, out.val, 0, TRUE, g))

\* s = a.toString(); b = *NetworkAddress::fromMACString(s), when there is a
\* value
ReparseMAC(r) ==
  /\ out.op = "toString" /\ out.kind = "ok" /\ steps < MaxSteps
  /\ steps' = steps + 1
  /\ b' = (IF r.kind = "ok" /\ r.val.has THEN r.val.val ELSE b)
  /\ out' = Result("fromMACString(toString)", r, a, out.val)
  /\ UNCHANGED <<a, c, ifdir, iface, ifaddrs>>

RoundTripMAC == \E g \in Garbage : ReparseMAC(fromMACString(ifdir, out.val, g))

\* NetworkAddress b(std::move(a))
MoveConstruct ==
  \E g \in Garbage :
    LET r == NetworkAddress_move(a, g) IN
    /\ Running /\ steps < MaxSteps
    /\ steps' = steps + 1
    /\ b' = (IF r.kind = "ok" THEN r.val[1] ELSE b)
    /\ a' = (IF r.kind = "ok" THEN r.val[2] ELSE a)
    /\ out' = Result("move", r, a, <<>>)
    /\ UNCHANGED <<c, ifdir, iface, ifaddrs>>

\* a = std::move(b)
MoveAssignment ==
  LET r == MoveAssign(a, b) IN
  /\ Running /\ steps < MaxSteps
  /\ steps' = steps + 1
  /\ a' = (IF r.kind = "ok" THEN r.val[1] ELSE a)
  /\ b' = (IF r.kind = "ok" THEN r.val[2] ELSE b)
  /\ out' = Result("move=", r, b, a)
  /\ UNCHANGED <<c, ifdir, iface, ifaddrs>>

\* a read-only operation on a; out.arg keeps the operation that preceded
\* it and that operation's argument
Query(op, r) ==
  /\ Running /\ out.op # "start"
  /\ out' = Result(op, r, a, <<out.op, out.arg>>)
  /\ UNCHANGED <<a, b, c, steps, ifdir, iface, ifaddrs>>

Valid == Query("valid", Ok(valid(a)))
Family == Query("family", Ok(family(a)))
CallToString == Query("toString", toString(ifdir, a))
SocketLength == Query("socketLength", socketLength(a))
IsMulticast == Query("isMulticast", isMulticast(a))
IsLinkLocal == Query("isLinkLocal", isLinkLocal(a))
Interface == Query("interface", interface(ifdir, a))
Port == Query("port", port(a))
Protocol == Query("protocol", protocol(a))
\* a == b, a < b, ... : cmp(a, b)
Compare == Query("cmp", cmp(a, b))

Next ==
  \/ ConstructDefault \/ ConstructOctets \/ ConstructUint32 \/ ConstructSpan4
  \/ ConstructWords \/ ConstructMac \/ ConstructPath \/ ConstructPosix
  \/ FromIPString \/ FromMACString
  \/ Copy \/ WithPort \/ WithProtocol \/ WithInterface \/ RoundTripIP \/ RoundTripMAC
  \/ MoveConstruct \/ MoveAssignment
  \/ Valid \/ Family \/ CallToString \/ SocketLength \/ IsMulticast \/ IsLinkLocal
  \/ Interface \/ Port \/ Protocol \/ Compare

Spec == Init /\ [][Next]_vars

\* ------------------------------------------------------------------------
\* The comparison as a relation: a, b and c are drawn from addresses the
\* public constructors and factories return, and one step compares them
\* pairwise.  out.val holds cmp(a,b), cmp(b,a), cmp(b,c), cmp(a,c), cmp(a,a)
\* and out.arg the results of a == b, a < b and b < a.

OrderInputs ==
  {NetworkAddress_octets(192, 168, 1, 1, 8080),
   NetworkAddress_octets(192, 168, 1, 1, 80),
   NetworkAddress_octets(10, 0, 0, 1, 8080),
   NetworkAddress_words(Directory, <<65152, 0, 0, 0, 514, 46079, 65054, 33577>>, 443, NoInterface),
   NetworkAddress_mac(Directory, <<0, 26, 43, 60, 77, 94>>, 0, NoInterface),
   fromUNIXSocketPath(Txt(<<"/", "t", "m", "p">>)).val,
   fromPOSIXSocketAddress(BlobIn(8080, <<192, 168, 1, 1>>, <<1, 2, 3, 4, 5, 6, 7, 8>>),
                          MaxSocklen, 0).val,
   fromPOSIXSocketAddress(BlobLl(0, 2, 200, [i \in 1..8 |-> i]), MaxSocklen, 0).val}

InitOrder ==
  /\ a \in OrderInputs
  /\ b \in OrderInputs
  /\ c \in OrderInputs
  /\ out = Result("start", Ok(<<>>), <<>>, <<>>)
  /\ steps = 0
  /\ ifdir = Directory
  /\ iface = NoInterface
  /\ ifaddrs = <<>>

AllOk(rs) == \A i \in 1..Len(rs) : rs[i].kind = "ok"

CompareAll ==
  /\ out.op = "start"
  /\ out' = [op |-> "order",
             kind |-> IF AllOk(<<cmp(a, b), cmp(b, a), cmp(b, c), cmp(a, c), cmp(a, a)>>)
                      THEN "ok" ELSE "ub",
             val |-> <<cmp(a, b), cmp(b, a), cmp(b, c), cmp(a, c), cmp(a, a)>>,
             recv |-> <<a, b, c>>,
             arg |-> <<OpEq(a, b), OpLt(a, b), OpLt(b, a), OpLt(b, c), OpLt(a, c)>>]
  /\ UNCHANGED <<a, b, c, steps, ifdir, iface, ifaddrs>>

NextOrder == CompareAll

SpecOrder == InitOrder /\ [][NextOrder]_vars

\* ------------------------------------------------------------------------
\* The order of IPv4 addresses built by the constructors: a and c come from
\* the four-octet constructor, b from the 32-bit host-order constructor, and
\* one step compares them pairwise as above.

OrderPorts == {80, 256, 8080}

\* (o1 << 24) | (o2 << 16) | (o3 << 8) | o4
Host32(o) == <<(o[1] * 256) + o[2], (o[3] * 256) + o[4]>>

InitV4Order ==
  /\ a \in {NetworkAddress_octets(o[1], o[2], o[3], o[4], p) : o \in V4Addrs, p \in OrderPorts}
  /\ b \in {NetworkAddress_uint32(Host32(o), p) : o \in V4Addrs, p \in OrderPorts}
  /\ c \in {NetworkAddress_octets(o[1], o[2], o[3], o[4], 256) : o \in V4Addrs}
  /\ out = Result("start", Ok(<<>>), <<>>, <<>>)
  /\ steps = 0
  /\ ifdir = Directory
  /\ iface = NoInterface
  /\ ifaddrs = <<>>

SpecV4Order == InitV4Order /\ [][NextOrder]_vars

\* ------------------------------------------------------------------------
\* Move assignment over an unrelated destination: a (the destination) and b
\* (the source) are drawn independently from addresses of every family and
\* of different lengths, a = std::move(b) is made, and a is queried.

MoveInputs ==
  OrderInputs \cup
  {fromUNIXSocketPath(Txt(<<"/", "t", "m", "p", "/", "s", "o", "c", "k", "e", "t">>)).val,
   fromPOSIXSocketAddress(BlobUn(LongPath(SizeofSunPath)), MaxSocklen, 0).val,
   fromPOSIXSocketAddress(BlobLl(0, 9, 3, <<1, 2, 3, 0, 0, 0, 0, 0>>), MaxSocklen, 0).val,
   NetworkAddress_words(Directory, <<8193, 3512, 34211, 0, 0, 35374, 880, 29492>>, 0,
                        NetworkInterface(Txt(<<"e", "t", "h", "0">>)))}

InitMove ==
  /\ a \in MoveInputs
  /\ b \in MoveInputs
  /\ c = NetworkAddress_default
  /\ out = Result("start", Ok(<<>>), <<>>, <<>>)
  /\ steps = 0
  /\ ifdir = Directory
  /\ iface = NoInterface
  /\ ifaddrs = <<>>

NextMove == MoveAssignment \/ Family \/ SocketLength \/ CallToString

SpecMove == InitMove /\ [][NextMove]_vars

\* ------------------------------------------------------------------------
\* NetworkInterface against the OS: iface is a NetworkInterface object, ifdir
\* the interface directory of the OS, which changes under the program, and
\* ifaddrs the list getifaddrs returns (ifa_addr = <<>> is a null pointer).

RECURSIVE getIPAddress_from(_, _, _, _, _, _)
\* the loop of NetworkInterface::getIPAddress from record i on, addr being
\* the fallback found so far
getIPAddress_from(list, i, name, preferIPv6, addr, g) ==
  IF i > Len(list) THEN Ok(addr)
  ELSE IF list[i].ifa_name # name \/ list[i].ifa_addr = <<>>
       THEN getIPAddress_from(list, i + 1, name, preferIPv6, addr, g)
  ELSE IF ReadU16Host(list[i].ifa_addr, 0) \notin {AF_INET, AF_INET6}
       THEN getIPAddress_from(list, i + 1, name, preferIPv6, addr, g)
  ELSE IF fromPOSIXSocketAddress(list[i].ifa_addr, MaxSocklen, g).kind # "ok"
       THEN fromPOSIXSocketAddress(list[i].ifa_addr, MaxSocklen, g)
  ELSE IF /\ ReadU16Host(list[i].ifa_addr, 0) = (IF preferIPv6 THEN AF_INET6 ELSE AF_INET)
          /\ valid(fromPOSIXSocketAddress(list[i].ifa_addr, MaxSocklen, g).val)
       THEN Ok(Present(fromPOSIXSocketAddress(list[i].ifa_addr, MaxSocklen, g).val))
  ELSE getIPAddress_from(list, i + 1, name, preferIPv6,
                         Present(fromPOSIXSocketAddress(list[i].ifa_addr, MaxSocklen, g).val), g)

\* the search with the preference inverted
getIPAddress_otherFamily(list, intf, preferIPv6, g) ==
  getIPAddress_from(list, 1, intf.name, ~preferIPv6, Absent, g)

getIPAddress(list, intf, preferIPv6, g) ==
  getIPAddress_from(list, 1, intf.name, preferIPv6, Absent, g)

Eth0 == Txt(<<"e", "t", "h", "0">>)
Lo == Txt(<<"l", "o">>)
Wlan9 == Txt(<<"w", "l", "a", "n", "9">>)

\* the names handed to fromString: known, unknown, empty, and a known name
\* followed by a NUL and one more character
IfNames == {Eth0, Lo, Wlan9, <<>>, Eth0 \o <<0, Ord("x")>>}
IfIndices == {0, 1, 2, 3}

\* the directory with an interface removed, re-indexed, and added
Directories ==
  {Directory,
   {[name |-> Lo, index |-> 1]},
   {[name |-> Lo, index |-> 1], [name |-> Eth0, index |-> 3]},
   {[name |-> Lo, index |-> 1], [name |-> Eth0, index |-> 2], [name |-> Wlan9, index |-> 3]}}

Ifa(name, addr) == [ifa_name |-> name, ifa_addr |-> addr]
In4(o) == BlobIn(0, o, Zeros(8))
In6(sw, scope) == BlobIn6(0, 0, Bytes6(sw), scope)
Ll(ifindex, hw) == BlobLl(0, ifindex, 6, hw \o <<0, 0>>)

AddrLists ==
  {<<>>,
   <<Ifa(Lo, Ll(1, Zeros(6))), Ifa(Eth0, Ll(2, <<0, 26, 43, 60, 77, 94>>)),
     Ifa(Lo, In4(<<127, 0, 0, 1>>)), Ifa(Eth0, In4(<<192, 168, 1, 1>>)),
     Ifa(Eth0, In4(<<10, 0, 0, 1>>)),
     Ifa(Lo, In6(<<0, 0, 0, 0, 0, 0, 0, 1>>, 0)),
     Ifa(Eth0, In6(<<65152, 0, 0, 0, 514, 46079, 65054, 33577>>, 2)),
     Ifa(Eth0, In6(<<8193, 3512, 34211, 0, 0, 35374, 880, 29492>>, 0))>>,
   <<Ifa(Eth0, In6(<<65152, 0, 0, 0, 514, 46079, 65054, 33577>>, 2)),
     Ifa(Lo, In4(<<127, 0, 0, 1>>)),
     Ifa(Eth0, In6(<<8193, 3512, 34211, 0, 0, 35374, 880, 29492>>, 0))>>,
   <<Ifa(Eth0, In4(<<192, 168, 1, 1>>)), Ifa(Lo, In6(<<0, 0, 0, 0, 0, 0, 0, 1>>, 0)),
     Ifa(Eth0, In4(<<10, 0, 0, 1>>))>>,
   <<Ifa(Eth0, <<>>), Ifa(Eth0, Ll(2, <<0, 26, 43, 60, 77, 94>>)),
     Ifa(Lo, In4(<<127, 0, 0, 1>>))>>}

InitIntf ==
  /\ a = NetworkAddress_default
  /\ b = NetworkAddress_default
  /\ c = NetworkAddress_default
  /\ out = Result("start", Ok(<<>>), <<>>, <<>>)
  /\ steps = 0
  /\ ifdir = Directory
  /\ iface = NoInterface
  /\ ifaddrs \in AddrLists

\* an operation that yields a NetworkInterface, kept in iface when there is
\* one
IfConstruct(op, r, arg) ==
  /\ iface' = (IF r.has THEN r.val ELSE iface)
  /\ out' = Result(op, Ok(r), iface, arg)
  /\ UNCHANGED <<a, b, c, steps, ifdir, ifaddrs>>

IfDefault == IfConstruct("NetworkInterface()", Present(NoInterface), <<>>)
IfFromString == \E name \in IfNames : IfConstruct("fromString", fromString(ifdir, name), name)
IfFromIntfIndex ==
  \E index \in IfIndices : IfConstruct("fromIntfIndex", fromIntfIndex(ifdir, U32(index)), index)

\* a query on iface
IfQuery(op, r, arg) ==
  /\ out' = Result(op, r, iface, arg)
  /\ UNCHANGED <<a, b, c, steps, ifdir, iface, ifaddrs>>

IsValid == IfQuery("isValid", Ok(isValid(iface)), <<>>)
GetName == IfQuery("getName", Ok(getName(iface)), <<>>)
GetIndex == IfQuery("getIndex", Ok(getIndex(ifdir, iface)), <<>>)
GetIPAddress ==
  \E preferIPv6 \in BOOLEAN, g \in Garbage :
    IfQuery("getIPAddress", getIPAddress(ifaddrs, iface, preferIPv6, g), preferIPv6)

\* the OS adds, removes or re-indexes an interface
DirectoryChange ==
  /\ steps < MaxSteps
  /\ steps' = steps + 1
  /\ ifdir' \in Directories \ {ifdir}
  /\ out' = Result("directory", Ok(<<>>), iface, <<>>)
  /\ UNCHANGED <<a, b, c, iface, ifaddrs>>

NextIntf ==
  \/ IfDefault \/ IfFromString \/ IfFromIntfIndex
  \/ IsValid \/ GetName \/ GetIndex \/ GetIPAddress
  \/ DirectoryChange

SpecIntf == InitIntf /\ [][NextIntf]_vars

\* ------------------------------------------------------------------------
\* Properties

\* the address the last operation worked on, and whether the round trip
\* s = a.toString(); b = *fromIPString(s) has just been made from it
RoundTripped(f) == out.op = "fromIPString(toString)" /\ family(out.recv) = f

\* C1: for every valid IPv4 address a, however it was obtained,
\* fromIPString(a.toString()) holds a value and that value equals a
C1_IPv4RoundTrip ==
  RoundTripped("ipv4") =>
    /\ out.kind = "ok" /\ out.val.has
    /\ OpEq(out.val.val, out.recv) = Ok(TRUE)

\* C2: for every valid IPv6 address a whose scope-id is 0,
\* fromIPString(a.toString()) holds a value and that value equals a
C2_IPv6RoundTrip ==
  (RoundTripped("ipv6") /\ ReadU32Host(out.recv, 24) = U32(0)) =>
    /\ out.kind = "ok" /\ out.val.has
    /\ OpEq(out.val.val, out.recv) = Ok(TRUE)

Sign(n) == IF n < 0 THEN -1 ELSE IF n > 0 THEN 1 ELSE 0
Count(bs) == Cardinality({i \in 1..Len(bs) : bs[i]})

\* C3: over valid addresses a, b, c of any families the comparison is a
\* strict total order consistent with equality: exactly one of a < b,
\* a == b, b < a holds, cmp(a,b) and cmp(b,a) have opposite signs, a < b and
\* b < c imply a < c, and a == b holds exactly when cmp(a,b) is 0
C3_StrictTotalOrder ==
  (out.op = "order" /\ valid(a) /\ valid(b) /\ valid(c)) =>
    /\ out.kind = "ok"
    /\ Count(<<out.arg[1].val, out.arg[2].val, out.arg[3].val>>) = 1
    /\ Sign(out.val[1].val) = 0 - Sign(out.val[2].val)
    /\ (out.arg[2].val /\ out.arg[4].val) => out.arg[5].val
    /\ out.arg[1].val <=> (out.val[1].val = 0)

\* the first n bytes of a storage, as far as the storage reaches
Prefix(s, n) == SubSeq(s, 1, Min(n, Len(s)))

\* the lexicographic order of two byte strings of one length: -1, 0 or 1
LexSign(x, y) ==
  IF x = y THEN 0
  ELSE LET k == CHOOSE i \in 1..Len(x) : x[i] # y[i] /\ \A j \in 1..(i - 1) : x[j] = y[j]
       IN IF x[k] < y[k] THEN -1 ELSE 1

\* C4: for valid a and b, a == b exactly when the socket lengths are equal
\* and the first socketLength() bytes are identical; with different lengths
\* the shorter orders first, with equal lengths the order is that of the
\* raw bytes; bytes beyond socketLength() never influence the result
C4_LengthThenBytes ==
  (out.op = "order" /\ valid(a) /\ valid(b)) =>
    /\ out.val[1].kind = "ok"
    /\ Sign(out.val[1].val) =
         IF socketLength(a).val # socketLength(b).val
         THEN Sign(socketLength(a).val - socketLength(b).val)
         ELSE LexSign(Prefix(a, socketLength(a).val), Prefix(b, socketLength(b).val))

\* the operation the last step applied to a (or, for a move assignment, to
\* b) had a receiver of family f
ReceiverOps ==
  ReadOnlyOps \cup {"copy", "move", "move=", "withPort", "withProtocol", "withInterface"}
Received(ops, fs) == out.op \in ops /\ family(out.recv) \in fs
AnyFamily == {"ipv4", "ipv6", "ethernet", "unixSocket"}

\* C5: after move construction or move assignment from a valid address s,
\* the source reports valid() = false and family() = unspecified, and the
\* destination compares equal to the value s held before the move, with the
\* same family and the same toString()
C5_MoveKeepsValue ==
  Received({"move", "move="}, AnyFamily) =>
    /\ out.kind = "ok"
    /\ ~valid(out.val[2]) /\ family(out.val[2]) = "unspecified"
    /\ OpEq(out.val[1], out.recv) = Ok(TRUE)
    /\ family(out.val[1]) = family(out.recv)
    /\ toString(ifdir, out.val[1]).kind # "ub"
    /\ toString(ifdir, out.val[1]) = toString(ifdir, out.recv)

\* C6: for every valid address a, copy construction of b from a copies
\* exactly a.socketLength() bytes, gives b == a with the same family() and
\* the same toString(), and leaves a unchanged
C6_CopyEqual ==
  Received({"copy"}, AnyFamily) =>
    /\ out.kind = "ok"
    /\ Prefix(b, socketLength(out.recv).val) = Prefix(out.recv, socketLength(out.recv).val)
    /\ \E g \in Garbage : \A k \in (socketLength(out.recv).val + 1)..SizeofStorage : b[k] = g
    /\ OpEq(b, a) = Ok(TRUE)
    /\ family(b) = family(a)
    /\ toString(ifdir, b).kind # "ub"
    /\ toString(ifdir, b) = toString(ifdir, a)
    /\ a = out.recv

\* a with-operation on a receiver whose family does not support the field
Inapplicable ==
  \/ Received({"withPort"}, {"ethernet", "unixSocket"})
  \/ Received({"withProtocol"}, {"ipv4", "ipv6", "unixSocket"})
  \/ Received({"withInterface"}, {"ipv4", "unixSocket"})

Fits(s) == socketLength(s).kind = "ok" /\ socketLength(s).val <= SizeofStorage

Field2(s) == (s[3] * 256) + s[4]

\* the constructors that are given a port, and the one given a protocol,
\* as the second component of their argument
PortConstructors ==
  {"NetworkAddress(o1..o4)", "NetworkAddress(uint32)", "NetworkAddress(span4)",
   "NetworkAddress(w1..w8)"}
ProtocolConstructors == {"NetworkAddress(mac)"}

\* C8: port() returns the stored port, in host order and as given at
\* construction, on IPv4 and IPv6 addresses, and protocol() the stored
\* protocol on Ethernet addresses; port() on Ethernet or Unix, protocol() on
\* IPv4, IPv6 or Unix and isMulticast() or isLinkLocal() on Unix reach the
\* wrong-family assertion instead of returning a value
C8_StoredOrAssert ==
  /\ Received({"port"}, {"ipv4", "ipv6"}) =>
       /\ out.kind = "ok" /\ out.val = Field2(out.recv)
       /\ out.arg[1] \in PortConstructors => out.val = out.arg[2][2]
  /\ Received({"protocol"}, {"ethernet"}) =>
       /\ out.kind = "ok" /\ out.val = Field2(out.recv)
       /\ out.arg[1] \in ProtocolConstructors => out.val = out.arg[2][2]
  /\ Received({"port"}, {"ethernet", "unixSocket"}) => out.kind = "assert"
  /\ Received({"protocol"}, {"ipv4", "ipv6", "unixSocket"}) => out.kind = "assert"
  /\ Received({"isMulticast", "isLinkLocal"}, {"unixSocket"}) => out.kind = "assert"

C8_Witness ==
  /\ Received({"port"}, {"ipv4"})
  /\ out.arg[1] = "NetworkAddress(o1..o4)"
  /\ out.kind = "ok" /\ out.val = 8080

\* C9: on an address whose family is unspecified, valid() is false and
\* family() is unspecified, and every other operation that dispatches on
\* the family signals the unbound state in a defined way, without
\* dereferencing a missing dispatch result
C9_UnspecifiedIsDefined ==
  Received(ReceiverOps, {"unspecified"}) =>
    /\ out.op = "valid" => out.val = FALSE
    /\ out.op = "family" => out.val = "unspecified"
    /\ out.kind # "ub"

\* C10: for every input string fromIPString and fromMACString either return
\* an address or return absent; neither throws, asserts, nor accesses a
\* character of an empty string
C10_ParsersAreTotal ==
  out.op \in {"fromIPString", "fromMACString"} => out.kind = "ok"

\* the positions of the ':' and of the ']' characters of a text
Colons(t) == {i \in 1..Len(t) : t[i] = Ord(":")}
Brackets(t) == {i \in 1..Len(t) : t[i] = Ord("]")}
Last(S) == CHOOSE i \in S : \A j \in S : j <= i

\* the text cut at its last ':' into <<host, port text>>
CutAtLastColon(t) == <<SubSeq(t, 1, Last(Colons(t)) - 1), SubSeq(t, Last(Colons(t)) + 1, Len(t))>>

\* the split as C11 states it: at the last ':' when it is the only ':' or a
\* ']' stands at or after it
SplitAsStated(t) ==
  IF Colons(t) # {} /\ (Cardinality(Colons(t)) = 1 \/ \E j \in Brackets(t) : j >= Last(Colons(t)))
  THEN CutAtLastColon(t) ELSE <<t, <<>>>>

\* the split at the last ':' when it is the only ':' or the last ']' of the
\* text stands before it
SplitBeforeColon(t) ==
  IF Colons(t) # {} /\ (Cardinality(Colons(t)) = 1 \/
                          (Brackets(t) # {} /\ Last(Brackets(t)) < Last(Colons(t))))
  THEN CutAtLastColon(t) ELSE <<t, <<>>>>

\* one surrounding pair of brackets stripped from a host
Unbracketed(h) ==
  IF Len(h) >= 2 /\ h[1] = Ord("[") /\ h[Len(h)] = Ord("]") THEN SubSeq(h, 2, Len(h) - 1) ELSE h

\* the port handed to resolution, as text
ServiceText(portText, defaultPort, parse) ==
  IF parse /\ Len(portText) > 0 THEN portText ELSE Dec(defaultPort)

\* the last operation was fromIPString(t, p, parse) and its outcome is that
\* of resolving host and service (parts = <<host before the strip, port text>>)
ResolvedAs(parts) ==
  \E g \in Garbage :
    LET r == FromAddrinfo(getaddrinfo(ifdir, Unbracketed(parts[1]),
                                      ServiceText(parts[2], out.arg[2], out.arg[3])), g)
    IN out.kind = r.kind /\ out.val = r.val

\* C11: fromIPString splits the text at its last ':' into host and port
\* text exactly when that ':' is the only ':' or a ']' appears at or after
\* it, strips one surrounding bracket pair from the host, and resolves the
\* host with the port text when parsePortInString is true and the port text
\* is non-empty, and with defaultPort otherwise
C11_SplitAsStated ==
  out.op = "fromIPString" => ResolvedAs(SplitAsStated(out.arg[1]))

\* C11 as amended: the split is made exactly when the last ':' is the only
\* ':' or the last ']' of the text stands before it; with a non-empty host
\* part one surrounding bracket pair is stripped and host and port are
\* resolved as stated; with an empty host part the call reads the first
\* character of an empty string
C11_SplitBeforeColon ==
  out.op = "fromIPString" =>
    /\ SplitHostPort(out.arg[1]) = SplitBeforeColon(out.arg[1])
    /\ IF Len(SplitBeforeColon(out.arg[1])[1]) = 0
       THEN out.kind = "ub"
       ELSE /\ HostPortParts(out.arg[1]) =
                 Ok(<<Unbracketed(SplitBeforeColon(out.arg[1])[1]), SplitBeforeColon(out.arg[1])[2]>>)
            /\ ResolvedAs(SplitBeforeColon(out.arg[1]))

C11_Witness ==
  /\ out.op = "fromIPString" /\ out.arg[3]
  /\ out.arg[1] = Txt(<<"[", "2", "0", "0", "1", ":", "0", "d", "b", "8", ":", ":", "1", "]", ":", "8", "0", "8", "0">>)
  /\ out.kind = "ok" /\ out.val.has /\ port(out.val.val) = Ok(8080)

\* the k-th cut of a text at its ':' characters (0 before the text, the
\* k-th ':' and Len + 1 after the last one) and the group between two cuts
Cut(t, k) ==
  IF k = 0 THEN 0
  ELSE IF k > Cardinality(Colons(t)) THEN Len(t) + 1
  ELSE CHOOSE i \in Colons(t) : Cardinality({j \in Colons(t) : j < i}) = k - 1
Group(t, k) == SubSeq(t, Cut(t, k - 1) + 1, Cut(t, k) - 1)

\* six groups of one or two hexadecimal digits, separated by ':'
WellFormedMac(t) ==
  /\ Cardinality(Colons(t)) = ETH_ALEN - 1
  /\ \A k \in 1..ETH_ALEN :
       /\ Len(Group(t, k)) \in {1, 2}
       /\ \A i \in 1..Len(Group(t, k)) : IsXDigit(Group(t, k)[i])

\* C12: fromMACString(text) returns an address exactly when the text is six
\* non-empty groups of one or two hexadecimal digits separated by ':', and
\* absent for every other text; the address is Ethernet with the six bytes
\* in order and protocol 0
C12_MacAcceptance ==
  out.op = "fromMACString" =>
    /\ out.kind = "ok"
    /\ out.val.has <=> WellFormedMac(out.arg)
    /\ out.val.has =>
         /\ family(out.val.val) = "ethernet"
         /\ protocol(out.val.val) = Ok(0)
         /\ \A k \in 1..ETH_ALEN :
              out.val.val[OffsetSllAddr + k] = HexVal(Group(out.arg, k), 1, Len(Group(out.arg, k)))

\* the six octets stored in an Ethernet storage
HwAddr(s) == [k \in 1..ETH_ALEN |-> s[OffsetSllAddr + k]]

\* s is what NetworkAddress(o1, .., o6) constructs: protocol 0, no interface
BuiltFromOctets(s) == s = NetworkAddress_mac(ifdir, HwAddr(s), 0, NoInterface)

\* C13: for all six octets, fromMACString(NetworkAddress(o1,..,o6).toString())
\* holds a value that compares equal to NetworkAddress(o1,..,o6) built with
\* protocol 0 and no interface
C13_MacRoundTrip ==
  (out.op = "fromMACString(toString)" /\ BuiltFromOctets(out.recv)) =>
    /\ out.kind = "ok" /\ out.val.has
    /\ OpEq(out.val.val, out.recv) = Ok(TRUE)

C13_Witness ==
  /\ out.op = "fromMACString(toString)" /\ BuiltFromOctets(out.recv)
  /\ HwAddr(out.recv) = <<1, 0, 94, 0, 0, 251>>
  /\ out.kind = "ok" /\ out.val.has /\ HwAddr(out.val.val) = <<1, 0, 94, 0, 0, 251>>

\* C14: for every path p without an embedded NUL of at most
\* kMaxUnixPathLength characters, fromUNIXSocketPath(p) is valid with family
\* unixSocket and toString() returns exactly p; for a longer path toString()
\* returns the prefix of p of that many characters
C14_UnixPathRoundTrip ==
  /\ out.op = "fromUNIXSocketPath" =>
       out.kind = "ok" /\ valid(a) /\ family(a) = "unixSocket"
  /\ (out.op = "toString" /\ out.arg[1] = "fromUNIXSocketPath") =>
       /\ out.kind = "ok"
       /\ out.val = SubSeq(out.arg[2], 1, Min(Len(out.arg[2]), kMaxUnixPathLength))

\* the numeric host text of an IP address: the dotted quad of the four stored
\* octets, or the IPv6 text of the sixteen stored octets with its zone
HostText(dir, s) ==
  IF family(s) = "ipv4" THEN inet_ntop4(Slice(TypedSock(s), 4, 4))
  ELSE getnameinfo6(dir, TypedSock(s)).host

\* C15: toString() of an IPv4 address is the host text when port() = 0 and
\* host ':' decimal port otherwise; of an IPv6 address it is the host text
\* when port() = 0 and '[' host ']' ':' decimal port otherwise; the suffix
\* and the brackets appear exactly when the port is not zero
C15_IPToString ==
  (out.op = "toString" /\ family(out.recv) \in {"ipv4", "ipv6"}) =>
    LET h == HostText(ifdir, out.recv)
        p == port(out.recv)
    IN /\ out.kind = "ok" /\ p.kind = "ok"
       /\ p.val = 0 => out.val = h
       /\ (p.val # 0 /\ family(out.recv) = "ipv4") =>
            out.val = h \o <<Ord(":")>> \o Dec(p.val)
       /\ (p.val # 0 /\ family(out.recv) = "ipv6") =>
            out.val = <<Ord("[")>> \o h \o <<Ord("]")>> \o <<Ord(":")>> \o Dec(p.val)
       /\ (family(out.recv) = "ipv4") => ((Colons(out.val) # {}) <=> (p.val # 0))
       /\ (family(out.recv) = "ipv6") => ((out.val[1] = Ord("[")) <=> (p.val # 0))

C15_Witness ==
  /\ out.op = "toString" /\ out.kind = "ok"
  /\ family(out.recv) = "ipv6"
  /\ port(out.recv) = Ok(8080)
  /\ out.val[1] = Ord("[")

\* the stored hardware-address length of an Ethernet address
Halen(s) == TypedSock(s)[OffsetSllHalen + 1]

\* the first n stored octets as two upper-case hex digits each, joined by ':'
JoinedOctets(s, n) ==
  [i \in 1..(IF n = 0 THEN 0 ELSE (3 * n) - 1) |->
     IF i % 3 = 0 THEN Ord(":")
     ELSE IF i % 3 = 1 THEN UpperXDigit(TypedSock(s)[OffsetSllAddr + ((i + 2) \div 3)] \div 16)
     ELSE UpperXDigit(TypedSock(s)[OffsetSllAddr + ((i + 2) \div 3)] % 16)]

\* C16: for every Ethernet address whose stored hardware-address length n is
\* between 0 and the size of the hardware-address field, toString() returns
\* without throwing the first n stored octets as two-digit upper-case hex
\* groups joined by single ':' characters
C16_EthernetToString ==
  (/\ out.op = "toString" /\ family(out.recv) = "ethernet"
   /\ Halen(out.recv) <= SizeofSllAddr) =>
    /\ out.kind = "ok"
    /\ out.val = JoinedOctets(out.recv, Halen(out.recv))

\* the number of bytes of the path field before its first zero byte
StoredPathLength(s) ==
  Cardinality({i \in 1..SizeofSunPath :
                 \A j \in 1..i : TypedSock(s)[OffsetSunPath + j] # 0})

\* C17: socketLength() of a valid address is the size of the IPv4 record for
\* IPv4, the size of the IPv6 record for IPv6, the Ethernet record size minus
\* the size of its hardware-address field plus the stored hardware-address
\* length for Ethernet, and the offset of the path field plus the length of
\* the stored path plus 1 for Unix
C17_SocketLength ==
  (out.op = "socketLength" /\ valid(out.recv)) =>
    /\ out.kind = "ok"
    /\ out.val = (CASE family(out.recv) = "ipv4" -> SizeofIn
                    [] family(out.recv) = "ipv6" -> SizeofIn6
                    [] family(out.recv) = "ethernet" ->
                         (SizeofLl - SizeofSllAddr) + Halen(out.recv)
                    [] family(out.recv) = "unixSocket" ->
                         OffsetSunPath + StoredPathLength(out.recv) + 1)

C17_Witness ==
  /\ out.op = "socketLength" /\ out.kind = "ok"
  /\ family(out.recv) = "ethernet" /\ Halen(out.recv) = 3
  /\ out.val = 15

\* the k-th stored octet of the address field of an IPv4, IPv6 or Ethernet
\* address
Octet(s, k) ==
  TypedSock(s)[(CASE family(s) = "ipv4" -> 4
                  [] family(s) = "ipv6" -> 8
                  [] family(s) = "ethernet" -> OffsetSllAddr) + k]

\* C18: isMulticast() is true for an IPv4 address exactly when its first octet
\* is in 224..239, for an IPv6 address exactly when the first octet is 0xFF,
\* and for an Ethernet address exactly when the lowest bit of the first octet
\* is 1; being a function of the first octet alone, the result does not depend
\* on the port, the protocol or the interface
C18_IsMulticast ==
  (out.op = "isMulticast" /\ family(out.recv) \in {"ipv4", "ipv6", "ethernet"}) =>
    /\ out.kind = "ok"
    /\ out.val = (CASE family(out.recv) = "ipv4" -> Octet(out.recv, 1) \in 224..239
                    [] family(out.recv) = "ipv6" -> Octet(out.recv, 1) = 255
                    [] family(out.recv) = "ethernet" -> Octet(out.recv, 1) % 2 = 1)

C18_Witness ==
  /\ out.op = "isMulticast" /\ out.kind = "ok" /\ out.val = TRUE
  /\ family(out.recv) = "ipv4" /\ port(out.recv) = Ok(8080)

\* C19: isLinkLocal() is true for an IPv4 address exactly when its first two
\* octets are 169 and 254, for an IPv6 address exactly when its first two
\* octets are 0xFE and 0x80, and for every Ethernet address
C19_IsLinkLocal ==
  (out.op = "isLinkLocal" /\ family(out.recv) \in {"ipv4", "ipv6", "ethernet"}) =>
    /\ out.kind = "ok"
    /\ out.val = (CASE family(out.recv) = "ipv4" ->
                         Octet(out.recv, 1) = 169 /\ Octet(out.recv, 2) = 254
                    [] family(out.recv) = "ipv6" ->
                         Octet(out.recv, 1) = 254 /\ Octet(out.recv, 2) = 128
                    [] family(out.recv) = "ethernet" -> TRUE)

C19_Witness ==
  /\ out.op = "isLinkLocal" /\ out.kind = "ok" /\ out.val = TRUE
  /\ family(out.recv) = "ipv4"

\* the scope-id of an IPv6 address, the interface index of an Ethernet address
StoredIndex(s) == ReadU32Host(TypedSock(s), IF family(s) = "ipv6" THEN 24 ELSE 4)

\* the Interface reference the directory maps a stored number to
MappedInterface(dir, index) ==
  IF index # U32(0) /\ \E e \in dir : U32(e.index) = index
  THEN Present(NetworkInterface((CHOOSE e \in dir : U32(e.index) = index).name))
  ELSE Absent

\* C20: interface() returns absent for every IPv4 address and for every Unix
\* address; for an IPv6 address it returns the Interface reference the
\* directory maps the stored scope-id to, for an Ethernet address the one it
\* maps the stored interface index to, and absent when that number is 0 or
\* the directory has no entry for it
C20_InterfaceAsStated ==
  (out.op = "interface" /\ valid(out.recv)) =>
    /\ out.kind = "ok"
    /\ out.val = (IF family(out.recv) \in {"ipv4", "unixSocket"} THEN Absent
                  ELSE MappedInterface(ifdir, StoredIndex(out.recv)))

\* C20, amended: as stated for IPv4, IPv6 and Ethernet addresses; on a Unix
\* address interface() reaches the wrong-family assertion and returns nothing
C20_InterfaceOrAssert ==
  (out.op = "interface" /\ valid(out.recv)) =>
    IF family(out.recv) = "unixSocket" THEN out.kind = "assert"
    ELSE /\ out.kind = "ok"
         /\ out.val = (IF family(out.recv) = "ipv4" THEN Absent
                       ELSE MappedInterface(ifdir, StoredIndex(out.recv)))

C20_Witness ==
  /\ out.op = "interface" /\ out.kind = "ok"
  /\ family(out.recv) = "ipv6"
  /\ out.val = Present(NetworkInterface(Txt(<<"e", "t", "h", "0">>)))

\* what interface() of the result of withInterface(i) is to be: i itself when
\* the directory maps its name to a non-zero index, absent for the invalid
\* reference (a non-empty name the directory does not know is not covered)
ReadBackInterface(dir, i, r) ==
  /\ getIndex(dir, i) # 0 => r = Ok(Present(i))
  /\ ~isValid(i) => r = Ok(Absent)

\* C21: reading back a field just set returns the value set:
\* a.withPort(p).port() = p for IPv4 and IPv6, e.withProtocol(q).protocol() = q
\* for Ethernet, and x.withInterface(i).interface() is i when the directory
\* maps i's name to a non-zero index and absent when i is the invalid
\* reference, for IPv6 and Ethernet
C21_ReadBack ==
  /\ Received({"withPort"}, {"ipv4", "ipv6"}) =>
       (out.kind = "ok" /\ port(out.val) = Ok(out.arg))
  /\ Received({"withProtocol"}, {"ethernet"}) =>
       (out.kind = "ok" /\ protocol(out.val) = Ok(out.arg))
  /\ Received({"withInterface"}, {"ipv6", "ethernet"}) =>
       (out.kind = "ok" /\ ReadBackInterface(ifdir, out.arg, interface(ifdir, out.val)))

\* the family named by the family field of a blob, and the number of bytes
\* of a blob of that family the call is to take
BlobFamily(blob) == unix2addr(ReadU16Host(blob, 0))
BlobTake(blob, len) ==
  IF BlobFamily(blob) \in AnyFamily THEN Min(len, family2type(BlobFamily(blob)))
  ELSE SizeofSockaddr

\* C22: fromPOSIXSocketAddress(blob, len): when the family field of blob is
\* one of the four known families the result is valid with that family and
\* holds the first min(len, size of that family's record) bytes of blob; when
\* it is not, only the generic-address header is copied and the result has
\* valid() = false and family() = unspecified
C22_FromPosix ==
  (out.op = "fromPOSIXSocketAddress") =>
    IF BlobFamily(out.arg[1]) \in AnyFamily
    THEN Len(out.arg[1]) >= BlobTake(out.arg[1], out.arg[2]) =>
           /\ out.kind = "ok"
           /\ valid(out.val) /\ family(out.val) = BlobFamily(out.arg[1])
           /\ Prefix(out.val, BlobTake(out.arg[1], out.arg[2]))
                = Prefix(out.arg[1], BlobTake(out.arg[1], out.arg[2]))
    ELSE /\ out.kind = "ok"
         /\ Prefix(out.val, SizeofSockaddr) = Prefix(out.arg[1], SizeofSockaddr)
         /\ \E g \in Garbage : \A k \in (SizeofSockaddr + 1)..SizeofStorage : out.val[k] = g
         /\ ~valid(out.val) /\ family(out.val) = "unspecified"

WithOps == {"withPort", "withProtocol", "withInterface"}

\* the bytes of the record that hold the field a with-operation names
NamedField(op, f) ==
  CASE op = "withPort" /\ f \in {"ipv4", "ipv6"} -> 3..4
    [] op = "withProtocol" /\ f = "ethernet" -> 3..4
    [] op = "withInterface" /\ f = "ipv6" -> 25..28
    [] op = "withInterface" /\ f = "ethernet" -> 5..8
    [] OTHER -> {}

\* C23: withPort, withProtocol and withInterface never modify the receiver,
\* and the address they return differs from the receiver in at most the named
\* field (same family, same length, every other byte of the record
\* unchanged); the read-only accessors leave the address unchanged too.  A
\* call that stops at the wrong-family assertion returns nothing and is not
\* constrained.
C23_Frame ==
  /\ (out.op \in WithOps /\ out.kind # "assert") =>
       /\ out.kind = "ok"
       /\ a = out.recv /\ OpEq(a, out.recv) = Ok(TRUE)
       /\ family(out.val) = family(out.recv)
       /\ socketLength(out.val) = socketLength(out.recv)
       /\ \A k \in 1..socketLength(out.recv).val :
            k \notin NamedField(out.op, family(out.recv)) => out.val[k] = out.recv[k]
  /\ (out.op \in ReadOnlyOps /\ out.kind # "assert") =>
       (out.kind # "ub" /\ a = out.recv)

\* the directory maps a name to a non-zero index, an index to a name
MapsName(dir, name) == \E e \in dir : e.name = name /\ e.index # 0
MapsIndex(dir, index) == \E e \in dir : e.index = index

\* C24: fromString(name) returns a reference exactly when the directory maps
\* name to a non-zero index, and fromIntfIndex(index) exactly when it maps
\* index to a name; a returned reference has isValid() = true and getName()
\* equal to the directory's name, and fromIntfIndex(fromString(n).getIndex())
\* equals fromString(n); a default-constructed reference has isValid() =
\* false, getName() = "" and getIndex() = 0
C24_InterfaceLookup ==
  /\ out.op = "fromString" =>
       /\ out.val.has <=> MapsName(ifdir, out.arg)
       /\ out.val.has =>
            /\ isValid(out.val.val)
            /\ \E e \in ifdir : e.name = getName(out.val.val)
            /\ fromIntfIndex(ifdir, U32(getIndex(ifdir, out.val.val))) = out.val
  /\ out.op = "fromIntfIndex" =>
       /\ out.val.has <=> MapsIndex(ifdir, out.arg)
       /\ out.val.has =>
            /\ isValid(out.val.val)
            /\ \E e \in ifdir : e.index = out.arg /\ e.name = getName(out.val.val)
  /\ out.op = "NetworkInterface()" =>
       /\ ~isValid(out.val.val) /\ getName(out.val.val) = <<>>
       /\ getIndex(ifdir, out.val.val) = 0

\* the index the directory maps a name to, 0 when it maps it to none
MappedIndex(dir, name) ==
  IF MapsName(dir, name) THEN (CHOOSE e \in dir : e.name = name).index ELSE 0

\* C25: across any sequence of directory changes an existing reference's
\* isValid() and getName() are determined by the stored name alone (a
\* directory change leaves the reference as it is), while each getIndex()
\* returns the index the directory maps that name to at the moment of the
\* call, and 0 when it maps it to none
C25_StableNameLiveIndex ==
  /\ [](/\ out.op = "isValid" => out.val = (Len(out.recv.name) > 0)
        /\ out.op = "getName" => out.val = out.recv.name
        /\ out.op = "getIndex" => out.val = MappedIndex(ifdir, out.recv.name))
  /\ [][ifdir' # ifdir => iface' = iface]_vars

\* the accesses outside the buffer an operation works on
OutOfBounds ==
  {"memcpy past the storage", "memcmp past the storage", "read past sll_addr",
   "write past sun_path"}

\* C26: no public operation reads or writes outside the buffer it works on:
\* socketLength() of every address reachable through the public API is at
\* most the size of the storage, so that copy, move and comparison stay
\* inside both buffers, and building a Unix address never writes past the
\* end of the path field
C26_InBounds ==
  /\ ~(out.kind = "ub" /\ out.val \in OutOfBounds)
  /\ valid(a) => socketLength(a).val <= SizeofStorage
  /\ valid(b) => socketLength(b).val <= SizeofStorage

\* C27: move assignment d = move(s) with s valid gives d equal to s's prior
\* value whatever d held before, for every pair of families and lengths: the
\* bytes left in d from its previous value change neither family(),
\* socketLength(), toString() nor the result of a comparison
C27_MoveAssignOver ==
  Received({"move="}, AnyFamily) =>
    /\ out.kind = "ok"
    /\ family(out.val[1]) = family(out.recv)
    /\ socketLength(out.val[1]) = socketLength(out.recv)
    /\ toString(ifdir, out.val[1]).kind = "ok"
    /\ toString(ifdir, out.val[1]) = toString(ifdir, out.recv)
    /\ OpEq(out.val[1], out.recv) = Ok(TRUE)
    /\ \A x \in MoveInputs : cmp(out.val[1], x) = cmp(out.recv, x)

\* the numeric order of the pairs (port, address), the first octet being the
\* most significant
OctetsLess(o1, o2) ==
  \E i \in 1..4 : o1[i] < o2[i] /\ \A j \in 1..(i - 1) : o1[j] = o2[j]
PairLess(p1, o1, p2, o2) == p1 < p2 \/ (p1 = p2 /\ OctetsLess(o1, o2))

\* C28: for IPv4 addresses built by the constructors the order is the
\* numeric order of the pair (port, address): with equal ports a < b exactly
\* when a's octets are lexicographically smaller, with different ports the
\* smaller port orders first; the 32-bit host-order constructor and the
\* four-octet constructor give equal addresses for one address and port
C28_V4Order ==
  \A o1 \in V4Addrs, o2 \in V4Addrs, p1 \in OrderPorts, p2 \in OrderPorts :
    (/\ out.op = "order"
     /\ a = NetworkAddress_octets(o1[1], o1[2], o1[3], o1[4], p1)) =>
      /\ b = NetworkAddress_uint32(Host32(o2), p2) =>
           /\ out.arg[1] = Ok(p1 = p2 /\ o1 = o2)
           /\ out.arg[2] = Ok(PairLess(p1, o1, p2, o2))
           /\ out.arg[3] = Ok(PairLess(p2, o2, p1, o1))
      /\ c = NetworkAddress_octets(o2[1], o2[2], o2[3], o2[4], p2) =>
           out.arg[5] = Ok(PairLess(p1, o1, p2, o2))

C28_Witness ==
  /\ out.op = "order"
  /\ a = NetworkAddress_octets(10, 0, 0, 1, 256)
  /\ b = NetworkAddress_uint32(Host32(<<192, 168, 1, 1>>), 80)
  /\ out.arg[3] = Ok(TRUE)

\* two blobs agree on the bytes a call with len takes from the first
Agree(blob1, blob2, len) ==
  /\ Len(blob2) >= Min(Len(blob1), BlobTake(blob1, len))
  /\ Prefix(blob1, BlobTake(blob1, len)) = Prefix(blob2, BlobTake(blob1, len))

\* C29: fromPOSIXSocketAddress is deterministic in its inputs: a second call
\* with the same len and a blob that agrees on the first min(len, family
\* record size) bytes returns an address that compares equal to the first
\* and has the same toString(), for every len
C29_PosixDeterministic ==
  (out.op = "fromPOSIXSocketAddress" /\ out.kind = "ok") =>
    \A blob \in Blobs, g \in Garbage :
      Agree(out.arg[1], blob, out.arg[2]) =>
        /\ fromPOSIXSocketAddress(blob, out.arg[2], g).kind = "ok"
        /\ OpEq(out.val, fromPOSIXSocketAddress(blob, out.arg[2], g).val).kind = "ok"
        /\ OpEq(out.val, fromPOSIXSocketAddress(blob, out.arg[2], g).val).val
        /\ toString(ifdir, out.val).kind # "ub"
        /\ toString(ifdir, out.val).kind
             = toString(ifdir, fromPOSIXSocketAddress(blob, out.arg[2], g).val).kind
        /\ toString(ifdir, out.val).val
             = toString(ifdir, fromPOSIXSocketAddress(blob, out.arg[2], g).val).val

\* the positions of the IPv4 and IPv6 records of the interface named name in
\* the enumeration, and those of one family among them
IPRecords(list, name) ==
  {i \in 1..Len(list) :
     /\ list[i].ifa_name = name /\ list[i].ifa_addr # <<>>
     /\ ReadU16Host(list[i].ifa_addr, 0) \in {AF_INET, AF_INET6}}
RecordsOf(list, name, af) ==
  {i \in IPRecords(list, name) : ReadU16Host(list[i].ifa_addr, 0) = af}
First(S) == CHOOSE i \in S : \A j \in S : i <= j

\* the address holds the record
IsRecord(addr, rec) == Prefix(addr, Len(rec)) = rec

\* C30: getIPAddress(preferIPv6) returns the first record of the preferred
\* family when the interface has one, one of its records of the other IP
\* family when it has only those, and absent exactly when the interface has
\* no IPv4 or IPv6 record; records of other interfaces and non-IP records
\* never appear in the result
C30_GetIPAddress ==
  (out.op = "getIPAddress") =>
    /\ out.kind = "ok"
    /\ out.val.has <=> IPRecords(ifaddrs, out.recv.name) # {}
    /\ out.val.has =>
         /\ valid(out.val.val)
         /\ \E i \in IPRecords(ifaddrs, out.recv.name) :
              IsRecord(out.val.val, ifaddrs[i].ifa_addr)
         /\ \A i \in 1..Len(ifaddrs) :
              (i \notin IPRecords(ifaddrs, out.recv.name) /\ ifaddrs[i].ifa_addr # <<>>) =>
                ~IsRecord(out.val.val, ifaddrs[i].ifa_addr)
    /\ RecordsOf(ifaddrs, out.recv.name, IF out.arg THEN AF_INET6 ELSE AF_INET) # {} =>
         IsRecord(out.val.val,
                  ifaddrs[First(RecordsOf(ifaddrs, out.recv.name,
                                          IF out.arg THEN AF_INET6 ELSE AF_INET))].ifa_addr)

C30_Witness ==
  /\ out.op = "getIPAddress" /\ out.arg = TRUE /\ out.recv.name = Eth0
  /\ out.kind = "ok" /\ out.val.has /\ family(out.val.val) = "ipv6"
  /\ RecordsOf(ifaddrs, Eth0, AF_INET) # {}
  /\ First(RecordsOf(ifaddrs, Eth0, AF_INET)) < First(RecordsOf(ifaddrs, Eth0, AF_INET6))

====
